---- MODULE Spec2Model ----
(***************************************************************************)
(* Chart configuration manager of the portfolio site (chart-config.js):    *)
(* the ChartConfigManager class, its compiled-in defaults, the local       *)
(* storage blob under key abilityChartConfig and the listener registry.    *)
(*                                                                         *)
(* JavaScript values are tagged records, so that values of different       *)
(* JavaScript types can be compared:                                       *)
(*   Num(n), Str(s), Bool(b), Null, Undefined, Fn (a function object),     *)
(*   Obj(f)  - a plain object, f a function from its own keys to values,   *)
(*   ArrP(e, p) - an array with elements e and non-index own properties p. *)
(* Non-ASCII label and series names of the source are written in ASCII.    *)
(***************************************************************************)
EXTENDS Integers, Sequences, FiniteSets, TLC

VARIABLES
    config,     \* this.config of the manager
    listeners,  \* this.listeners, in registration order
    storage,    \* localStorage item 'abilityChartConfig'
    writable,   \* whether localStorage.setItem succeeds (FALSE: it throws)
    lastOp,     \* the call made last: [op, arg, outcome, ret]
    calls,      \* listener invocations made by the last call, in order
    console,    \* console.warn / console.error lines written by the last call
    held,       \* an object a caller holds: [val, alias, shares]
    candidate,  \* the argument handed to validateConfig
    validation, \* what validateConfig returned
    panelConfig,        \* this.config of the settings panel's manager
    chartConfig,        \* the radar renderer's config
    isAnimating,        \* the renderer's isAnimating
    animationProgress,  \* the renderer's animationProgress: [num, den]
    hoveredIndex,       \* the renderer's hoveredIndex
    frame,              \* the animation frame callback: [pending, since, elapsed, duration]
    tooltip,            \* the element #radar-tooltip: [exists, show, index]
    inThrottle,         \* inThrottle of the throttled handlers: [mousemove, resize]
    size,               \* the canvas's display size in px
    drawn,              \* what the last event drew on the canvas
    pointer,            \* where the last mouse event left the pointer
    inView,             \* isIntersecting of the observer's last entry
    dom,                \* what setupCoreAbilityRadarChart found and left
    app,                \* how far initializeApp came
    stale,              \* the renderers that later setups replaced
    caches,             \* the origin's CacheStorage: [cache, url, body]
    worker,             \* the service worker: [state, log]
    response            \* what the last fetch event was answered with

\* The radar renderer set up last.
renderer == <<chartConfig, isAnimating, animationProgress, hoveredIndex,
              frame, tooltip, inThrottle, size, drawn, pointer, inView>>

\* The page's start-up and the renderers it replaced.
site == <<dom, app, stale>>

\* The service worker and its caches.
sw == <<caches, worker, response>>

\* The page besides window.chartConfigManager: the settings panel's manager,
\* the radar renderer, the start-up and the service worker.
page == <<panelConfig, renderer, site, sw>>

vars == <<config, listeners, storage, writable, lastOp, calls, console,
          held, candidate, validation, page>>

----------------------------------------------------------------------------
(* JavaScript values *)

Num(n) == [t |-> "num", n |-> n]
Str(s) == [t |-> "str", s |-> s]
Bool(b) == [t |-> "bool", b |-> b]
Null == [t |-> "null"]
Undefined == [t |-> "undefined"]
Fn == [t |-> "function"]
NoFields == <<>>
Obj(f) == [t |-> "obj", f |-> f]
ArrP(e, p) == [t |-> "arr", e |-> e, p |-> p]
Arr(e) == ArrP(e, NoFields)

\* What a call produces when it throws instead of returning a value.
TypeError == [t |-> "TypeError"]
SyntaxError == [t |-> "SyntaxError"]
SecurityError == [t |-> "SecurityError"]

IsError(v) == v.t \in {"TypeError", "SyntaxError", "SecurityError"}

\* ToBoolean(v)
Truthy(v) ==
    CASE v.t = "num" -> v.n # 0
      [] v.t = "str" -> v.s # ""
      [] v.t = "bool" -> v.b
      [] v.t \in {"null", "undefined"} -> FALSE
      [] OTHER -> TRUE

\* typeof v === 'object'
TypeofObject(v) == v.t \in {"obj", "arr", "null"}

\* Array.isArray(v)
IsArray(v) == v.t = "arr"

\* The own enumerable string keys a for-in loop visits. The inputs used
\* here give arrays no elements to merge from, and Fn has no enumerable key.
OwnKeys(v) ==
    CASE v.t = "obj" -> DOMAIN v.f
      [] v.t = "arr" -> DOMAIN v.p
      [] OTHER -> {}

\* v[key] for a non-index key: the own property, else a member inherited
\* from Object.prototype, else undefined. Reading a property of null or
\* undefined throws.
ProtoNames == {"toString", "constructor", "hasOwnProperty"}

GetProp(v, key) ==
    CASE v.t \in {"null", "undefined"} -> TypeError
      [] v.t = "obj" /\ key \in DOMAIN v.f -> v.f[key]
      [] v.t = "arr" /\ key \in DOMAIN v.p -> v.p[key]
      [] key \in ProtoNames -> Fn
      [] OTHER -> Undefined

\* v with own property key set to x (v an object or an array).
SetProp(v, key, x) ==
    LET put(f) == [k \in (DOMAIN f) \cup {key} |-> IF k = key THEN x ELSE f[k]]
    IN  IF v.t = "obj" THEN Obj(put(v.f)) ELSE ArrP(v.e, put(v.p))

----------------------------------------------------------------------------
(* JSON *)

RECURSIVE JsonClone(_)
\* JSON.parse(JSON.stringify(v)): a fresh value; properties whose value is
\* undefined or a function are dropped, such array elements become null,
\* and non-index properties of arrays are lost.
JsonClone(v) ==
    CASE v.t = "obj" ->
           LET keep == {k \in DOMAIN v.f : v.f[k].t \notin {"undefined", "function"}}
           IN  Obj([k \in keep |-> JsonClone(v.f[k])])
      [] v.t = "arr" ->
           Arr([i \in DOMAIN v.e |->
                  IF v.e[i].t \in {"undefined", "function"} THEN Null
                  ELSE JsonClone(v.e[i])])
      [] OTHER -> v

\* A non-empty string kept in local storage or handed to importConfig: JSON
\* text is modelled by the value it denotes, any other text is not parseable.
\* localStorage.getItem gives Null when there is no item.
JsonText(v) == [t |-> "text", ok |-> TRUE, v |-> v]
Garbage == [t |-> "text", ok |-> FALSE, v |-> Null]

\* JSON.stringify(v)
Stringify(v) == JsonText(JsonClone(v))

\* JSON.parse(s)
Parse(s) == IF s.t = "text" /\ s.ok THEN s.v ELSE SyntaxError

----------------------------------------------------------------------------
(* Compiled-in defaults *)

DefaultSeries ==
    << Obj([name |-> Str("current"), color |-> Str("#06b6d4"),
            fillColor |-> Str("rgba(6, 182, 212, 0.2)"), strokeWidth |-> Num(2),
            pointRadius |-> Num(4), pointColor |-> Str("#06b6d4"),
            showPoints |-> Bool(TRUE), showFill |-> Bool(TRUE)]),
       Obj([name |-> Str("target"), color |-> Str("#8b5cf6"),
            fillColor |-> Str("rgba(139, 92, 246, 0.1)"), strokeWidth |-> Num(2),
            pointRadius |-> Num(3), pointColor |-> Str("#8b5cf6"),
            showPoints |-> Bool(TRUE), showFill |-> Bool(FALSE)]) >>

DefaultLabels ==
    << Str("frontend"), Str("backend"), Str("mobile"),
       Str("data"), Str("management"), Str("design") >>

DefaultThemes ==
    Obj([dark |->
           Obj([chart |-> Obj([backgroundColor |-> Str("transparent")]),
                radar |-> Obj([gridColor |-> Str("rgba(255, 255, 255, 0.1)"),
                               axisColor |-> Str("rgba(255, 255, 255, 0.2)"),
                               labelColor |-> Str("#94a3b8")])]),
         light |->
           Obj([chart |-> Obj([backgroundColor |-> Str("#ffffff")]),
                radar |-> Obj([gridColor |-> Str("rgba(0, 0, 0, 0.1)"),
                               axisColor |-> Str("rgba(0, 0, 0, 0.2)"),
                               labelColor |-> Str("#64748b")])])])

DEFAULT_CHART_CONFIG ==
    Obj([chart |->
           Obj([width |-> Num(400), height |-> Num(400),
                backgroundColor |-> Str("transparent"), padding |-> Num(40),
                animationDuration |-> Num(1000),
                animationEasing |-> Str("easeOutQuart")]),
         radar |->
           Obj([levels |-> Num(5), levelStep |-> Num(20), maxValue |-> Num(100),
                showGrid |-> Bool(TRUE), showAxes |-> Bool(TRUE),
                showLabels |-> Bool(TRUE), showValues |-> Bool(TRUE),
                gridColor |-> Str("rgba(255, 255, 255, 0.1)"),
                axisColor |-> Str("rgba(255, 255, 255, 0.2)"),
                labelColor |-> Str("#94a3b8"), valueColor |-> Str("#06b6d4")]),
         series |-> Arr(DefaultSeries),
         labels |-> Arr(DefaultLabels),
         interaction |->
           Obj([enableHover |-> Bool(TRUE), enableClick |-> Bool(TRUE),
                enableTooltip |-> Bool(TRUE), hoverRadius |-> Num(8),
                hoverColor |-> Str("#ffffff"),
                tooltipBackground |-> Str("rgba(0, 0, 0, 0.8)"),
                tooltipTextColor |-> Str("#ffffff"),
                tooltipBorderRadius |-> Num(8), tooltipPadding |-> Num(12)]),
         animation |->
           Obj([enableEntryAnimation |-> Bool(TRUE),
                enableHoverAnimation |-> Bool(TRUE),
                enableUpdateAnimation |-> Bool(TRUE), entryDelay |-> Num(100),
                hoverDuration |-> Num(200), updateDuration |-> Num(800)]),
         responsive |->
           Obj([enabled |-> Bool(TRUE),
                breakpoints |-> Obj([mobile |-> Num(480), tablet |-> Num(768),
                                     desktop |-> Num(1024)]),
                mobileConfig |->
                  Obj([chart |-> Obj([width |-> Num(280), height |-> Num(280),
                                      padding |-> Num(30)]),
                       radar |-> Obj([levels |-> Num(4)])]),
                tabletConfig |->
                  Obj([chart |-> Obj([width |-> Num(350), height |-> Num(350),
                                      padding |-> Num(35)])])]),
         themes |-> DefaultThemes])

----------------------------------------------------------------------------
(* mergeConfig *)

RECURSIVE merge(_, _)
\* The inner function merge(obj, src): the value obj holds once the for-in
\* loop over src has run, or TypeError when an assignment inside it throws.
\* A class body is strict code, so creating a property on a primitive obj
\* throws; an array obj takes the keys as non-index properties. The keys
\* are independent of one another, and a throw discards the whole result.
merge(obj, src) ==
    LET keys == OwnKeys(src)
        \* what the loop body assigns to obj[key]
        assigned(key) ==
            LET sv == GetProp(src, key)
                cur == GetProp(obj, key)
            IN  IF Truthy(sv) /\ TypeofObject(sv) /\ ~IsArray(sv)
                THEN merge(IF Truthy(cur) THEN cur ELSE Obj(NoFields), sv)
                ELSE sv
        own == OwnKeys(obj)
        put == [k \in own \cup keys |->
                  IF k \in keys THEN assigned(k) ELSE GetProp(obj, k)]
    IN  IF keys = {} THEN obj
        ELSE IF obj.t \notin {"obj", "arr"} THEN TypeError
        ELSE IF \E k \in keys : IsError(put[k]) THEN TypeError
        ELSE IF obj.t = "obj" THEN Obj(put)
        ELSE ArrP(obj.e, put)

RECURSIVE mergeAppending(_, _)
\* merge with one change: an array of src is appended to an array of obj
\* instead of replacing it.
mergeAppending(obj, src) ==
    LET keys == OwnKeys(src)
        assigned(key) ==
            LET sv == GetProp(src, key)
                cur == GetProp(obj, key)
            IN  IF Truthy(sv) /\ TypeofObject(sv) /\ ~IsArray(sv)
                THEN mergeAppending(IF Truthy(cur) THEN cur ELSE Obj(NoFields), sv)
                ELSE IF IsArray(sv) /\ IsArray(cur) THEN ArrP(cur.e \o sv.e, cur.p)
                ELSE sv
        own == OwnKeys(obj)
        put == [k \in own \cup keys |->
                  IF k \in keys THEN assigned(k) ELSE GetProp(obj, k)]
    IN  IF keys = {} THEN obj
        ELSE IF obj.t \notin {"obj", "arr"} THEN TypeError
        ELSE IF \E k \in keys : IsError(put[k]) THEN TypeError
        ELSE IF obj.t = "obj" THEN Obj(put)
        ELSE ArrP(obj.e, put)

\* mergeConfig with arrays appended.
mergeConfigAppending(target, source) == mergeAppending(JsonClone(target), source)

\* mergeConfig as a shallow merge: every top-level key of source replaces.
mergeConfigShallow(target, source) ==
    LET copy == JsonClone(target)
    IN  Obj([k \in OwnKeys(copy) \cup OwnKeys(source) |->
               IF k \in OwnKeys(source) THEN GetProp(source, k) ELSE GetProp(copy, k)])

\* mergeConfig(target, source): a deep copy of target with source merged in.
mergeConfig(target, source) == merge(JsonClone(target), source)

----------------------------------------------------------------------------
(* Listener registry *)

\* The callbacks registered in this model: render returns normally, faulty
\* throws whenever it is called.
ListenerFns == {"render", "faulty"}

Throws(l) == l = "faulty"

Call(l, event) == [l |-> l, ev |-> event]

ListenerFailed == "error: listener failed"
SaveFailed == "error: save failed"
LoadFailed == "warn: load failed"
ImportFailed == "error: import failed"

\* addListener(listener): this.listeners.push(listener)
addListener(ls, l) == Append(ls, l)

\* this.listeners.indexOf(listener): the first index holding it, 0 for -1
indexOf(ls, l) ==
    IF \E i \in 1..Len(ls) : ls[i] = l
    THEN CHOOSE i \in 1..Len(ls) : ls[i] = l /\ \A j \in 1..(i - 1) : ls[j] # l
    ELSE 0

\* removeListener(listener): splice(index, 1) when the listener is found
removeListener(ls, l) ==
    LET index == indexOf(ls, l)
    IN  IF index > 0
        THEN [i \in 1..(Len(ls) - 1) |-> IF i < index THEN ls[i] ELSE ls[i + 1]]
        ELSE ls

\* notifyListeners walking the registry from its end.
notifyListenersReversed(ls, event) ==
    [calls |-> [i \in 1..Len(ls) |-> Call(ls[Len(ls) + 1 - i], event)],
     console |-> [i \in 1..Len(SelectSeq(ls, Throws)) |-> ListenerFailed]]

\* notifyListeners without the try/catch: the first listener that throws
\* ends the walk.
notifyListenersUnguarded(ls, event) ==
    LET stop == IF \E i \in 1..Len(ls) : Throws(ls[i])
                THEN CHOOSE i \in 1..Len(ls) :
                         Throws(ls[i]) /\ \A j \in 1..(i - 1) : ~Throws(ls[j])
                ELSE Len(ls)
    IN  [calls |-> [i \in 1..stop |-> Call(ls[i], event)], console |-> <<>>]

\* notifyListeners(event, data): forEach over the registry, each call in a
\* try/catch that logs; the calls made and the lines logged, in order.
notifyListeners(ls, event) ==
    [calls |-> [i \in 1..Len(ls) |-> Call(ls[i], event)],
     console |-> [i \in 1..Len(SelectSeq(ls, Throws)) |-> ListenerFailed]]

\* Callbacks that use what notifyListeners gives them: once removes itself
\* from the registry when it is called, meddler writes data.radar.levels.
LiveListenerFns == {"render", "once", "meddler"}

RECURSIVE forEach(_, _, _, _, _)
\* this.listeners.forEach(...) of notifyListeners(event, data) from index i
\* (from 1) on: forEach reads the array's length once (len) and visits the
\* indices below it that the array still has when their turn comes, so an
\* element that a splice moved to an index already visited is passed over.
\* data is the object handed to each listener, this.config itself.
forEach(ls, i, len, event, data) ==
    IF i > len THEN [listeners |-> ls, data |-> data, calls |-> <<>>, console |-> <<>>]
    ELSE IF i > Len(ls) THEN forEach(ls, i + 1, len, event, data)
    ELSE LET l == ls[i]
             rest == forEach(IF l = "once" THEN removeListener(ls, l) ELSE ls,
                             i + 1, len, event,
                             IF l = "meddler" /\ GetProp(data, "radar").t = "obj"
                             THEN SetProp(data, "radar",
                                      SetProp(GetProp(data, "radar"), "levels", Num(99)))
                             ELSE data)
         IN  [rest EXCEPT !.calls = <<Call(l, event)>> \o @,
                          !.console = (IF Throws(l) THEN <<ListenerFailed>> ELSE <<>>) \o @]

----------------------------------------------------------------------------
(* ChartConfigManager operations. Each takes the manager's config cfg and  *)
(* listeners ls, the stored item st and whether setItem succeeds w, and    *)
(* gives what the call leaves: [config, storage, calls, console, outcome,  *)
(* ret, assigned], outcome "returned" or "threw", assigned whether the     *)
(* call assigned a new object to this.config.                              *)

Result(cfg, st, cs, con, outcome, ret) ==
    [config |-> cfg, storage |-> st, calls |-> cs, console |-> con,
     outcome |-> outcome, ret |-> ret, assigned |-> TRUE]

\* A call that ends before it assigns this.config.
Unassigned(cfg, st, con, outcome, ret) ==
    [config |-> cfg, storage |-> st, calls |-> <<>>, console |-> con,
     outcome |-> outcome, ret |-> ret, assigned |-> FALSE]

\* A local storage the page may not use: every access throws.
Denied == [t |-> "denied"]

\* localStorage.getItem('abilityChartConfig')
getItem(st) == IF st = Denied THEN SecurityError ELSE st

\* What loadConfig leaves: the config, what it logged, and whether it
\* returned or threw.
Loaded(cfg, con, outcome) == [config |-> cfg, console |-> con, outcome |-> outcome]

\* loadConfig whose catch block returns an empty object in place of falling
\* through to the copy of the defaults.
loadConfigEmptyOnError(st) ==
    LET savedConfig == getItem(st)
        parsed == Parse(savedConfig)
        merged == mergeConfig(DEFAULT_CHART_CONFIG, parsed)
    IN  IF IsError(savedConfig) THEN Loaded(Obj(NoFields), <<LoadFailed>>, "returned")
        ELSE IF ~Truthy(savedConfig)
        THEN Loaded(JsonClone(DEFAULT_CHART_CONFIG), <<>>, "returned")
        ELSE IF IsError(parsed) \/ IsError(merged)
        THEN Loaded(Obj(NoFields), <<LoadFailed>>, "returned")
        ELSE Loaded(merged, <<>>, "returned")

\* loadConfig that never looks at the stored item.
loadConfigDefaultsOnly(st) ==
    Loaded(JsonClone(DEFAULT_CHART_CONFIG), <<>>, "returned")

\* loadConfig(): the config a new manager starts with, and what it logged.
\* The try block holds getItem, JSON.parse and mergeConfig.
loadConfig(st) ==
    LET savedConfig == getItem(st)
        parsed == Parse(savedConfig)
        merged == mergeConfig(DEFAULT_CHART_CONFIG, parsed)
    IN  IF IsError(savedConfig)
        THEN Loaded(JsonClone(DEFAULT_CHART_CONFIG), <<LoadFailed>>, "returned")
        ELSE IF ~Truthy(savedConfig)
        THEN Loaded(JsonClone(DEFAULT_CHART_CONFIG), <<>>, "returned")
        ELSE IF IsError(parsed) \/ IsError(merged)
        THEN Loaded(JsonClone(DEFAULT_CHART_CONFIG), <<LoadFailed>>, "returned")
        ELSE Loaded(merged, <<>>, "returned")

\* saveConfig(): setItem, then 'configSaved' to the listeners; a throwing
\* setItem is caught and logged.
saveConfig(cfg, ls, st, w) ==
    IF w
    THEN LET n == notifyListeners(ls, "configSaved")
         IN  [storage |-> Stringify(cfg), calls |-> n.calls, console |-> n.console]
    ELSE [storage |-> st, calls |-> <<>>, console |-> <<SaveFailed>>]

\* getConfig handing out this.config itself.
getConfigShared(cfg) == [val |-> cfg, alias |-> TRUE, shares |-> FALSE]

\* getConfig(): a fresh object, which is not this.config (alias FALSE).
getConfig(cfg) == [val |-> JsonClone(cfg), alias |-> FALSE, shares |-> FALSE]

\* updateConfig(newConfig)
updateConfig(cfg, ls, st, w, newConfig) ==
    LET merged == mergeConfig(cfg, newConfig)
        saved == saveConfig(merged, ls, st, w)
        n == notifyListeners(ls, "configUpdated")
    IN  IF IsError(merged)
        THEN Unassigned(cfg, st, <<>>, "threw", Undefined)
        ELSE Result(merged, saved.storage, saved.calls \o n.calls,
                    saved.console \o n.console, "returned", Undefined)

\* updateConfig(newConfig) with listeners that may change the registry and
\* the data they are handed: what it leaves of the config, the registry, the
\* storage, and the calls and log lines of its two notifications.
updateConfigLive(cfg, ls, st, w, newConfig) ==
    LET merged == mergeConfig(cfg, newConfig)
        saved == IF w THEN forEach(ls, 1, Len(ls), "configSaved", merged)
                 ELSE [listeners |-> ls, data |-> merged, calls |-> <<>>,
                       console |-> <<SaveFailed>>]
        n == forEach(saved.listeners, 1, Len(saved.listeners), "configUpdated",
                     saved.data)
    IN  IF IsError(merged)
        THEN [config |-> cfg, listeners |-> ls, storage |-> st, calls |-> <<>>,
              console |-> <<>>, outcome |-> "threw"]
        ELSE [config |-> n.data, listeners |-> n.listeners,
              storage |-> IF w THEN Stringify(merged) ELSE st,
              calls |-> saved.calls \o n.calls,
              console |-> saved.console \o n.console, outcome |-> "returned"]

\* resetConfig without the saveConfig() call.
resetConfigUnsaved(cfg, ls, st, w) ==
    LET fresh == JsonClone(DEFAULT_CHART_CONFIG)
        n == notifyListeners(ls, "configReset")
    IN  Result(fresh, st, n.calls, n.console, "returned", Undefined)

\* resetConfig()
resetConfig(cfg, ls, st, w) ==
    LET fresh == JsonClone(DEFAULT_CHART_CONFIG)
        saved == saveConfig(fresh, ls, st, w)
        n == notifyListeners(ls, "configReset")
    IN  Result(fresh, saved.storage, saved.calls \o n.calls,
               saved.console \o n.console, "returned", Undefined)

\* applyTheme without the if (theme) test.
applyThemeUnchecked(cfg, ls, st, w, themeName) ==
    LET theme == GetProp(GetProp(cfg, "themes"), themeName)
        merged == mergeConfig(cfg, theme)
        saved == saveConfig(merged, ls, st, w)
        n == notifyListeners(ls, "themeApplied")
    IN  IF IsError(theme) \/ IsError(merged)
        THEN Unassigned(cfg, st, <<>>, "threw", Undefined)
        ELSE Result(merged, saved.storage, saved.calls \o n.calls,
                    saved.console \o n.console, "returned", Undefined)

\* applyTheme(themeName)
applyTheme(cfg, ls, st, w, themeName) ==
    LET theme == GetProp(GetProp(cfg, "themes"), themeName)
        merged == mergeConfig(cfg, theme)
        saved == saveConfig(merged, ls, st, w)
        n == notifyListeners(ls, "themeApplied")
    IN  IF IsError(theme)
        THEN Unassigned(cfg, st, <<>>, "threw", Undefined)
        ELSE IF ~Truthy(theme)
        THEN Unassigned(cfg, st, <<>>, "returned", Undefined)
        ELSE IF IsError(merged)
        THEN Unassigned(cfg, st, <<>>, "threw", Undefined)
        ELSE Result(merged, saved.storage, saved.calls \o n.calls,
                    saved.console \o n.console, "returned", Undefined)

\* importConfig(configJson)
importConfig(cfg, ls, st, w, configJson) ==
    LET importedConfig == Parse(configJson)
        updated == updateConfig(cfg, ls, st, w, importedConfig)
    IN  IF IsError(importedConfig) \/ updated.outcome = "threw"
        THEN Unassigned(cfg, st, <<ImportFailed>>, "returned", Bool(FALSE))
        ELSE [updated EXCEPT !.ret = Bool(TRUE)]

\* validateConfig(config): [isValid, errors]. The widths and heights handed
\* in here are numbers or absent, so < and > compare numbers.
validateConfig(c) ==
    LET chart == GetProp(c, "chart")
        radar == GetProp(c, "radar")
        width == GetProp(chart, "width")
        height == GetProp(chart, "height")
        outside(v) == v.t = "num" /\ (v.n < 200 \/ v.n > 800)
        when(cond, msg) == IF cond THEN <<msg>> ELSE <<>>
        errors ==
            when(~Truthy(chart) \/ ~TypeofObject(chart), "chart missing")
            \o when(~Truthy(radar) \/ ~TypeofObject(radar), "radar missing")
            \o when(~IsArray(GetProp(c, "series")), "series must be an array")
            \o when(~IsArray(GetProp(c, "labels")), "labels must be an array")
            \o when(Truthy(chart) /\ Truthy(width) /\ outside(width),
                    "width must be within 200-800")
            \o when(Truthy(chart) /\ Truthy(height) /\ outside(height),
                    "height must be within 200-800")
    IN  [isValid |-> Len(errors) = 0, errors |-> errors]

----------------------------------------------------------------------------
(* Inputs *)

\* How many listeners are registered at most.
MaxListeners == 2

\* { radar: { levels: 3 } }
PLevels == Obj([radar |-> Obj([levels |-> Num(3)])])
\* { labels: ['A', 'B', 'C'] }
PLabels == Obj([labels |-> Arr(<<Str("A"), Str("B"), Str("C")>>)])
\* { chart: { width: { min: 1 } } }: an object where the config holds 400
PWidthObj == Obj([chart |-> Obj([width |-> Obj([min |-> Num(1)])])])
\* { labels: { first: 'A' } }: an object where the config holds an array
PLabelsObj == Obj([labels |-> Obj([first |-> Str("A")])])

\* { themes: null }
PNoThemes == Obj([themes |-> Null])
\* { legend: { show: true } }: a key the config does not have
PLegend == Obj([legend |-> Obj([show |-> Bool(TRUE)])])
\* { chart: { padding: { left: 8 } } } after { chart: { padding: null } }
PPaddingNull == Obj([chart |-> Obj([padding |-> Null])])
PRadarNull == Obj([radar |-> Null])
PPaddingObj == Obj([chart |-> Obj([padding |-> Obj([left |-> Num(8)])])])

Partials == {PLevels, PLabels, PWidthObj}

MorePartials == {PLabelsObj, PLegend, PPaddingNull, PPaddingObj, PNoThemes}

ThemeNames == {"dark", "light", "neon", "toString"}

ImportTexts == {JsonText(PLabels), JsonText(PWidthObj), Garbage}

InitialItems == {Null, JsonText(PLevels)}
\* What a page load may find: no item, an override, an item that is no JSON,
\* or a storage it may not use.
LoadItems == InitialItems \cup {Garbage, Denied}

\* What a caller does to an object it holds: v.radar.levels = 99, or
\* v.labels[0] = 'X'.
Mutations == {"nested", "array"}

\* v has the object or the array that the mutation writes to.
CanMutate(v, m) ==
    IF m = "nested" THEN GetProp(v, "radar").t = "obj"
    ELSE IsArray(GetProp(v, "labels")) /\ Len(GetProp(v, "labels").e) > 0

Mutate(v, m) ==
    IF m = "nested"
    THEN SetProp(v, "radar", SetProp(GetProp(v, "radar"), "levels", Num(99)))
    ELSE LET labels == GetProp(v, "labels")
         IN  SetProp(v, "labels",
                     ArrP([labels.e EXCEPT ![1] = Str("X")], labels.p))

\* The values validateConfig is tried on: chart absent, null, an array or an
\* object with a width and a height that are absent or a number; radar
\* absent or an object; series an array or an object; labels an array or
\* absent.
Sizes == {Undefined, Num(0), Num(199), Num(200), Num(800), Num(801)}

\* The object literal with the keys of f whose value is not undefined.
Literal(f) == Obj([k \in {k \in DOMAIN f : f[k] # Undefined} |-> f[k]])

Candidates ==
    {Literal([chart |-> c, radar |-> r, series |-> s, labels |-> l]) :
        c \in {Undefined, Null, Arr(<<>>)}
                 \cup {Literal([width |-> w, height |-> h]) : w \in Sizes, h \in Sizes},
        r \in {Undefined, Obj([levels |-> Num(5)])},
        s \in {Arr(DefaultSeries), Obj(NoFields)},
        l \in {Arr(DefaultLabels), Undefined}}

NoHeld == [val |-> Undefined, alias |-> FALSE, shares |-> FALSE]
NoValidation == [isValid |-> FALSE, errors |-> <<"not run">>]

----------------------------------------------------------------------------
(* The radar renderer: setupCoreAbilityRadarChart. Lengths on the canvas   *)
(* are held in tenths of a pixel, cosines and sines in thousandths.        *)

\* The labels and the series the renderer falls back to.
FallbackLabels ==
    << Str("architecture"), Str("teamwork"), Str("projects"),
       Str("innovation"), Str("learning"), Str("business") >>

FallbackSeries == << Obj([color |-> Str("#06b6d4"), name |-> Str("current")]) >>

\* The two "ensure the config is complete" steps of the setup.
Complete(cfg) ==
    LET series == GetProp(cfg, "series")
        labels == GetProp(cfg, "labels")
        c1 == IF ~Truthy(series) \/ ~IsArray(series) \/ Len(series.e) = 0
              THEN SetProp(cfg, "series", Arr(FallbackSeries)) ELSE cfg
    IN  IF ~Truthy(labels) \/ ~IsArray(labels)
        THEN SetProp(c1, "labels", Arr(FallbackLabels)) ELSE c1

\* const config = configManager.getConfig() of a new ChartConfigManager(),
\* completed.
RendererConfig(st) == Complete(getConfig(loadConfig(st).config).val)

defaultValues == <<92, 88, 85, 90, 95, 82>>

\* abilities: one [name, value] per label, value defaultValues[index] || 80.
abilities(cfg) ==
    LET labels == GetProp(cfg, "labels").e
    IN  [i \in DOMAIN labels |->
           [name |-> labels[i],
            value |-> IF i <= Len(defaultValues) THEN defaultValues[i] ELSE 80]]

\* initCanvas(): the display size for a container of the given width.
initCanvas(containerWidth) ==
    IF containerWidth - 40 < 400 THEN containerWidth - 40 ELSE 400

\* centerX = centerY, and radius, in tenths of a pixel.
Center10(sz) == sz * 5
Radius10(sz) == Center10(sz) - 600

\* The angle without the quarter turn back.
AngleFromRight(index, n) == [num |-> index * 360, den |-> n]

\* The angle of axis index among n axes, (index * 2 * PI) / n - PI / 2,
\* held in degrees as the fraction num / den.
Angle(index, n) == [num |-> index * 360 - 90 * n, den |-> n]

\* One draw: how far drawRadarChart came ("grid": drawGrid threw, "axes":
\* drawAxes threw, "done"), the axis spokes it stroked, the progress that
\* scaled the data polygon and the highlighted index.
Picture(stage, spokes, progress, hovered) ==
    [stage |-> stage, spokes |-> spokes, progress |-> progress, hovered |-> hovered]

\* drawAxes: one spoke per ability, stroked before its label is split into
\* characters; a label that is no string ends the loop with a TypeError.
drawAxes(abl) ==
    LET n == Len(abl)
        bad == {i \in 1..n : abl[i].name.t # "str"}
        last == IF bad = {} THEN n ELSE CHOOSE i \in bad : \A j \in bad : i <= j
    IN  [threw |-> bad # {},
         spokes |-> [i \in 1..last |-> Angle(i - 1, n)]]

\* drawRadarChart() with the given animationProgress and hoveredIndex:
\* drawGrid reads config.radar.levels and throws when config.radar is null
\* or undefined; drawData and drawDataPoints read nothing that throws.
drawRadarChart(cfg, progress, hovered) ==
    LET radar == GetProp(cfg, "radar")
        axes == drawAxes(abilities(cfg))
    IN  IF IsError(GetProp(radar, "levels"))
        THEN Picture("grid", <<>>, progress, hovered)
        ELSE IF axes.threw
        THEN Picture("axes", axes.spokes, progress, hovered)
        ELSE Picture("done", axes.spokes, progress, hovered)

\* config.animation?.key
AnimationSetting(cfg, key) ==
    LET animation == GetProp(cfg, "animation")
    IN  IF animation.t \in {"null", "undefined"} THEN Undefined
        ELSE GetProp(animation, key)

\* const duration = config.animation?.updateDuration || 2000
Duration(cfg) ==
    LET d == AnimationSetting(cfg, "updateDuration")
    IN  IF Truthy(d) /\ d.t = "num" THEN d.n ELSE 2000

\* animationProgress is held as num / den, den = 5001 * duration: a frame
\* adds animationSpeed * (deltaTime / 16.67)
\*   = (1000 / (60 * duration)) * (deltaTime / 16.67)
\*   = 5000 * deltaTime / (5001 * duration).
\* eased tells that the variable holds easeOutCubic(num / den), which lies
\* between num / den and 1, instead of num / den.
Progress(num, den, eased) == [num |-> num, den |-> den, eased |-> eased]

\* easeOutCubic(t) = 1 - (1 - t)^3, t and the result in thousandths
\* (rounded up from the cube's rounding down).
easeOutCubic(t) == 1000 - ((1000 - t) * (1000 - t) * (1000 - t)) \div 1000000

\* The factor drawData scales the data polygon with when animationProgress
\* is p, in thousandths: the eased value in a frame's draw, else num / den.
Scale1000(p) ==
    LET t == IF p.den < 1000 THEN (p.num * 1000) \div p.den
             ELSE p.num \div (p.den \div 1000)
        linear == IF t > 1000 THEN 1000 ELSE t
    IN  IF p.eased THEN easeOutCubic(linear) ELSE linear

\* A frame's step of animationProgress without the clamp at 1.
advanceUnclamped(p, deltaTime) ==
    [num |-> p.num + 5000 * deltaTime, done |-> p.num + 5000 * deltaTime >= p.den]

\* A frame's step of animationProgress: animationProgress += ..., and at 1
\* or more animationProgress = 1 and isAnimating = false (done).
advance(p, deltaTime) ==
    LET sum == p.num + 5000 * deltaTime
    IN  IF sum >= p.den THEN [num |-> p.den, done |-> TRUE]
        ELSE [num |-> sum, done |-> FALSE]

\* startAnimation() without its look at isAnimating.
StartsWhileAnimating(cfg, animating) ==
    Truthy(AnimationSetting(cfg, "enableEntryAnimation"))

\* startAnimation(): whether it starts a run.
Starts(cfg, animating) ==
    ~animating /\ Truthy(AnimationSetting(cfg, "enableEntryAnimation"))

\* cos and sin of a whole number of degrees that is a multiple of 30, in
\* thousandths.
Cos1000(deg) ==
    LET d == deg % 360
    IN  CASE d = 0 -> 1000
          [] d \in {30, 330} -> 866
          [] d \in {60, 300} -> 500
          [] d \in {90, 270} -> 0
          [] d \in {120, 240} -> -500
          [] d \in {150, 210} -> -866
          [] d = 180 -> -1000

Sin1000(deg) == Cos1000(deg - 90)

\* The data point of ability index (from 1) at full scale, as detectHover
\* computes it, in tenths of a pixel (rounded down).
Vertex(cfg, sz, index) ==
    LET abl == abilities(cfg)
        a == Angle(index - 1, Len(abl))
        deg == a.num \div a.den
        value == (abl[index].value * Radius10(sz)) \div 100
    IN  [x |-> Center10(sz) + (Cos1000(deg) * value) \div 1000,
         y |-> Center10(sz) + (Sin1000(deg) * value) \div 1000]

\* The square of the distance between a mouse position in pixels and a
\* point in tenths of a pixel, in hundredths of a square pixel.
Distance2(mousePos, v) ==
    (mousePos.x * 10 - v.x) * (mousePos.x * 10 - v.x)
        + (mousePos.y * 10 - v.y) * (mousePos.y * 10 - v.y)

\* newHoveredIndex with a reach of 30px.
newHoveredIndexWide(cfg, sz, mousePos) ==
    LET n == Len(abilities(cfg))
        near == {i \in 1..n : Distance2(mousePos, Vertex(cfg, sz, i)) <= 300 * 300}
    IN  IF near = {} THEN -1
        ELSE (CHOOSE i \in near : \A j \in near : j <= i) - 1

\* newHoveredIndex of detectHover (from 0, -1 for none): forEach overwrites
\* it at every data point within 15px, so the last such point stays.
newHoveredIndex(cfg, sz, mousePos) ==
    LET n == Len(abilities(cfg))
        near == {i \in 1..n : Distance2(mousePos, Vertex(cfg, sz, i)) <= 150 * 150}
    IN  IF near = {} THEN -1
        ELSE (CHOOSE i \in near : \A j \in near : j <= i) - 1

\* updateTooltip(mousePos, index)
updateTooltip(tip, index) ==
    IF index >= 0 THEN [exists |-> TRUE, show |-> TRUE, index |-> index]
    ELSE IF tip.exists THEN [tip EXCEPT !.show = FALSE]
    ELSE tip

\* What the renderer holds before its first event.
ZeroProgress == Progress(0, 1, FALSE)
NoFrame == [pending |-> FALSE, since |-> 0, elapsed |-> 0, duration |-> 0]
NoTooltip == [exists |-> FALSE, show |-> FALSE, index |-> -1]
NoDraw == [by |-> "nothing", now |-> FALSE,
           pic |-> Picture("none", <<>>, ZeroProgress, -1)]
Away == [over |-> FALSE, x |-> 0, y |-> 0]

\* The state setupCoreAbilityRadarChart leaves: nothing is drawn yet.
RendererSetup(st, containerWidth) ==
    /\ chartConfig = RendererConfig(st)
    /\ isAnimating = FALSE
    /\ animationProgress = ZeroProgress
    /\ hoveredIndex = -1
    /\ frame = NoFrame
    /\ tooltip = NoTooltip
    /\ inThrottle = [mousemove |-> FALSE, resize |-> FALSE]
    /\ size = initCanvas(containerWidth)
    /\ drawn = NoDraw
    /\ pointer = Away
    /\ inView = FALSE

\* What setupCoreAbilityRadarChart may find under the id radarCanvas: a
\* canvas, nothing, an element without getContext, or a canvas whose
\* getContext('2d') gives null.
CanvasStates == {"ok", "absent", "noGetContext", "noContext2d"}

\* setupCoreAbilityRadarChart() over the element found: what it logged,
\* what the chart container holds ("chart", or "message" once the catch
\* block has set its innerHTML), whether the mouse and resize listeners were
\* added and whether the observer was made. The two early returns only log.
\* With a null context the listeners are added before ctx = initCanvas()
\* throws at newCtx.scale, which the catch block answers.
setupCoreAbilityRadarChart(canvas) ==
    [canvas |-> canvas,
     log |-> CASE canvas = "absent" -> <<"warn: canvas not found">>
               [] canvas = "noGetContext" -> <<"error: canvas unsupported">>
               [] canvas = "noContext2d" -> <<"error: chart setup failed">>
               [] OTHER -> <<>>,
     container |-> IF canvas = "noContext2d" THEN "message" ELSE "chart",
     listeners |-> canvas \in {"ok", "noContext2d"},
     observer |-> canvas = "ok"]

\* The steps of initializeApp, in its order.
SetupSteps ==
    << "setupNavigation", "setupTypingEffect", "setupScrollEffects",
       "setupSkillsRadarChart", "setupCoreAbilityRadarChart",
       "setupAbilityScoreAnimations", "setupSkillBars", "setupChartConfigPanel",
       "setupBackToTop", "setupParallaxEffect", "setupScrollAnimations",
       "setupMobileMenu", "setupProjectInteractions" >>

\* The sections of initConfigPanel, in its order.
PanelSections == <<"basic", "style", "data", "animation", "tabs", "actions">>

\* initConfigPanel() over the panel manager's config, every control of the
\* panel being in the page: the number of sections it initialised before a
\* TypeError left it. initBasicSettings reads config.chart.width and
\* config.radar.levels, initStyleSettings config.theme.current and
\* config.dataSeries.forEach, initDataSettings config.labels.forEach; the
\* others read through ?. or read nothing.
initConfigPanel(cfg) ==
    LET chart == GetProp(cfg, "chart")
        radar == GetProp(cfg, "radar")
        theme == GetProp(cfg, "theme")
        dataSeries == GetProp(cfg, "dataSeries")
        labels == GetProp(cfg, "labels")
    IN  IF IsError(GetProp(chart, "width")) \/ IsError(GetProp(radar, "levels"))
        THEN 0
        ELSE IF IsError(GetProp(theme, "current")) \/ ~IsArray(dataSeries)
                  \/ \E i \in DOMAIN dataSeries.e :
                         IsError(GetProp(dataSeries.e[i], "color"))
        THEN 1
        ELSE IF ~IsArray(labels) THEN 2
        ELSE Len(PanelSections)

\* initializeApp() over the stored item: the steps that returned, the panel
\* sections that were initialised, whether setupChartConfigPanel came to bind
\* the panel's open and close handlers, and how initializeApp ended. No step
\* is called in a try block; the steps other than the two chart setups find
\* their elements and return.
initializeApp(st) ==
    LET done == initConfigPanel(getConfig(loadConfig(st).config).val)
        ok == done = Len(PanelSections)
        panel == CHOOSE i \in DOMAIN SetupSteps : SetupSteps[i] = "setupChartConfigPanel"
    IN  [steps |-> SubSeq(SetupSteps, 1, IF ok THEN Len(SetupSteps) ELSE panel - 1),
         sections |-> SubSeq(PanelSections, 1, done),
         bound |-> ok,
         outcome |-> IF ok THEN "returned" ELSE "threw"]

----------------------------------------------------------------------------
(* The service worker (sw.js). The origin's CacheStorage is a function from *)
(* the names of the caches in existence to their entries [url, body]; body  *)
(* is the version of the resource that was stored.                          *)

CACHE_NAME == "caojiebing-site-v1.0.0"

CACHE_URLS ==
    { "/", "/index.html", "/assets/css/styles.css", "/assets/css/critical.css",
      "/assets/js/script.js", "/assets/js/chart-config.js",
      "/assets/images/logo.png", "/assets/images/ai-engineer.jpg",
      "/assets/certificate/certificates.html",
      "/assets/certificate/2017-best-newcomer.html",
      "/assets/certificate/2018-fastest-progress.html",
      "/assets/certificate/2018-excellent-employee.html",
      "/assets/certificate/2019-innovation-breakthrough.html",
      "/assets/certificate/2019-excellent-pm.html", "/manifest.json" }

\* The service worker before it is registered, and no fetch event yet.
NoCaches == [n \in {} |-> {}]
NoWorker == [state |-> "none", log |-> <<>>]
NoResponse == [to |-> "none", net |-> "none", from |-> "none", body |-> "none",
               fetched |-> FALSE]

\* What the network does with a request: it answers 200 with the current
\* version of the resource, answers 404, or fails (the fetch rejects).
Answer(status, body) == [status |-> status, body |-> body]
Down == Answer(0, "none")

\* cache.put(url, body): the entry of url is replaced.
put(entries, url, body) ==
    {e \in entries : e.url # url} \cup {[url |-> url, body |-> body]}

\* caches.match(url): a stored entry of url in any cache, as a set of at most
\* one body where the caches agree.
match(cs, url) == {e.body : e \in {e \in UNION {cs[n] : n \in DOMAIN cs} : e.url = url}}

\* caches.open(CACHE_NAME): the cache is created when it is not there.
open(cs) ==
    [n \in DOMAIN cs \cup {CACHE_NAME} |-> IF n \in DOMAIN cs THEN cs[n] ELSE {}]

\* The install handler while the network answers every precache URL with
\* answer(url): cache.addAll stores all of them or, when one request fails
\* or is answered with another status than 200, none and rejects; the catch
\* logs the rejection, so the promise given to waitUntil is fulfilled in
\* both cases.
install(cs, answer) ==
    LET opened == open(cs)
        all == \A u \in CACHE_URLS : answer[u].status = 200
        added == {[url |-> u, body |-> answer[u].body] : u \in CACHE_URLS}
        kept == {e \in opened[CACHE_NAME] : e.url \notin CACHE_URLS}
    IN  [caches |-> IF all THEN [opened EXCEPT ![CACHE_NAME] = kept \cup added]
                    ELSE opened,
         log |-> IF all THEN <<"log: installed">> ELSE <<"error: install failed">>]

\* The activate handler: every cache whose name is not CACHE_NAME is deleted.
activate(cs) == [n \in DOMAIN cs \cap {CACHE_NAME} |-> cs[n]]

\* The fetch handler answering everything from the network.
fetchNetworkFirst(cs, req, answer) ==
    [caches |-> cs,
     response |-> [to |-> req, net |-> answer,
                   from |-> IF answer = Down THEN "error" ELSE "network",
                   body |-> answer.body, fetched |-> TRUE]]

\* The fetch handler for the request req = [method, origin, url,
\* destination] while the network would answer it with answer. origin is
\* "same", "prefixed" (another origin whose URL starts with the text of the
\* worker's origin, which startsWith lets through) or "cross"; the network's
\* response is of type basic for the worker's own origin only. A request the
\* handler does not answer goes to the network. respondWith(undefined),
\* which the offline fallback gives when /index.html is not cached, is a
\* network error.
fetch(cs, req, answer) ==
    LET served(from, body, fetched) ==
            [to |-> req, net |-> answer, from |-> from, body |-> body,
             fetched |-> fetched]
        direct == served(IF answer = Down THEN "error" ELSE "network",
                         answer.body, TRUE)
        hit == match(cs, req.url)
        offline == match(cs, "/index.html")
    IN  IF req.method # "GET" \/ req.origin = "cross"
        THEN [caches |-> cs, response |-> direct]
        ELSE IF req.origin = "same" /\ hit # {}
        THEN [caches |-> cs,
              response |-> served("cache", CHOOSE b \in hit : TRUE, FALSE)]
        ELSE IF answer = Down
        THEN [caches |-> cs,
              response |-> IF req.destination = "document" /\ offline # {}
                           THEN served("fallback", CHOOSE b \in offline : TRUE, TRUE)
                           ELSE served("error", "none", TRUE)]
        ELSE IF answer.status # 200 \/ req.origin # "same"
        THEN [caches |-> cs, response |-> direct]
        ELSE [caches |-> [open(cs) EXCEPT
                             ![CACHE_NAME] = put(@, req.url, answer.body)],
              response |-> direct]

\* The requests of the fetch events and the network's answers to them.
Requests ==
    { [method |-> "GET", origin |-> "same", url |-> "/index.html", destination |-> "document"],
      [method |-> "GET", origin |-> "same", url |-> "/about.html", destination |-> "document"],
      [method |-> "GET", origin |-> "same", url |-> "/assets/js/script.js", destination |-> "script"],
      [method |-> "GET", origin |-> "same", url |-> "/photo.jpg", destination |-> "image"],
      [method |-> "POST", origin |-> "same", url |-> "/index.html", destination |-> "document"],
      [method |-> "GET", origin |-> "prefixed", url |-> "/photo.jpg", destination |-> "image"],
      [method |-> "GET", origin |-> "cross", url |-> "/photo.jpg", destination |-> "image"] }

Answers == {Answer(200, "v1"), Answer(200, "v2"), Answer(404, "notfound"), Down}

\* The network at an install: up, down, or up with one precached file
\* missing on the server.
Networks ==
    { [u \in CACHE_URLS |-> Answer(200, "v1")],
      [u \in CACHE_URLS |-> Down],
      [u \in CACHE_URLS |-> IF u = "/assets/images/ai-engineer.jpg"
                             THEN Answer(404, "notfound") ELSE Answer(200, "v1")] }

\* A cache that an earlier version of the worker left.
OldCaches == [n \in {"caojiebing-site-v0.9.0"} |-> {[url |-> "/index.html", body |-> "v0"]}]

----------------------------------------------------------------------------

\* The container's width: wide enough for the full 400px canvas, or narrow.
WideContainer == 480
NarrowContainer == 200
ContainerWidths == {WideContainer, NarrowContainer}

\* The page after initializeApp: the settings panel's own manager and the
\* renderer, both loaded from the stored item.
PageSetupOver(st, containerWidth, canvas) ==
    /\ panelConfig = loadConfig(st).config
    /\ RendererSetup(st, containerWidth)
    /\ dom = setupCoreAbilityRadarChart(canvas)
    /\ app = initializeApp(st)
    /\ stale = <<>>
    /\ caches = NoCaches
    /\ worker = NoWorker
    /\ response = NoResponse

PageSetup(st, containerWidth) == PageSetupOver(st, containerWidth, "ok")

\* path.split('.') for the paths of the panel's controls.
Split(path) ==
    CASE path = "radar.levels" -> <<"radar", "levels">>
      [] path = "chart.width" -> <<"chart", "width">>
      [] path = "radar.showLegend" -> <<"radar", "showLegend">>

RECURSIVE SetPath(_, _, _)
\* The walk of the panel's updateConfig(path, value) over the object v:
\* current = current[key] for every key but the last, then
\* current[last] = value. TypeError when the walk reads a key of undefined
\* or of null.
SetPath(v, p, value) ==
    IF v.t \notin {"obj", "arr"} THEN TypeError
    ELSE IF Len(p) = 1 THEN SetProp(v, p[1], value)
    ELSE LET below == SetPath(GetProp(v, p[1]), Tail(p), value)
         IN  IF IsError(below) THEN TypeError ELSE SetProp(v, p[1], below)

\* The settings panel's updateConfig(path, value): the path is set in a copy
\* of the panel manager's config, and the whole copy is handed to its
\* updateConfig.
panelUpdateConfig(pcfg, st, w, path, value) ==
    LET changed == SetPath(getConfig(pcfg).val, Split(path), value)
    IN  IF IsError(changed)
        THEN Unassigned(pcfg, st, <<>>, "threw", Undefined)
        ELSE updateConfig(pcfg, <<>>, st, w, changed)

\* What the controls of the panel's basic settings set.
PanelInputs ==
    << [path |-> "radar.levels", value |-> Num(3)],
       [path |-> "chart.width", value |-> Num(300)],
       [path |-> "radar.showLegend", value |-> Bool(TRUE)] >>

\* Stored overrides of the animation settings and of config.radar.
PNoEntryAnimation == Obj([animation |-> Obj([enableEntryAnimation |-> Bool(FALSE)])])
PNoDuration == Obj([animation |-> Obj([updateDuration |-> Null])])

RadarItems ==
    {Null, JsonText(PNoEntryAnimation), JsonText(PNoDuration), JsonText(PRadarNull)}

\* The stored items of the draws: none, and overrides of the labels with
\* one label, three (PLabels) and five.
DrawItems ==
    { Null,
      JsonText(Obj([labels |-> Arr(<<Str("A")>>)])),
      JsonText(PLabels),
      JsonText(Obj([labels |->
          Arr(<<Str("A"), Str("B"), Str("C"), Str("D"), Str("E")>>)])) }

\* Where mousemove events find the pointer, in px from the canvas's corner.
Pointers == {<<200, 75>>, <<200, 90>>, <<300, 140>>, <<80, 70>>, <<80, 20>>}

HoverItems == {Null, JsonText(PLabels), JsonText(PRadarNull)}

\* A stored item with the two keys that initStyleSettings reads and the
\* defaults lack.
PPanelReady ==
    Obj([theme |-> Obj([current |-> Str("default")]), dataSeries |-> Arr(<<>>)])

\* The number of renderers that later setups replaced is kept to MaxStale.
MaxStale == 2

\* The times in ms between two runs of the animation frame callback: less
\* than the 16.67 ms the callback asks for, and more.
FrameIntervals == {10, 250, 600}

----------------------------------------------------------------------------
(* The manager as a state machine *)

Op(op, arg, outcome, ret) == [op |-> op, arg |-> arg, outcome |-> outcome, ret |-> ret]

Init ==
    /\ storage \in InitialItems
    /\ writable = TRUE
    /\ config = loadConfig(storage).config
    /\ console = loadConfig(storage).console
    /\ listeners = <<>>
    /\ calls = <<>>
    /\ lastOp = Op("constructor", Undefined, loadConfig(storage).outcome, Undefined)
    /\ held = NoHeld
    /\ candidate = Undefined
    /\ validation = NoValidation
    /\ PageSetup(storage, WideContainer)

\* A call of the manager that left r; a replaced this.config is no longer
\* the object a caller holds.
Apply(op, arg, r) ==
    /\ config' = r.config
    /\ storage' = r.storage
    /\ calls' = r.calls
    /\ console' = r.console
    /\ lastOp' = Op(op, arg, r.outcome, r.ret)
    /\ held' = IF r.assigned THEN [held EXCEPT !.alias = FALSE, !.shares = FALSE]
                ELSE held
    /\ UNCHANGED <<listeners, writable, candidate, validation, page>>

UpdateConfig(newConfig) ==
    Apply("updateConfig", newConfig,
          updateConfig(config, listeners, storage, writable, newConfig))

ResetConfig ==
    Apply("resetConfig", Undefined, resetConfig(config, listeners, storage, writable))

ApplyTheme(themeName) ==
    Apply("applyTheme", Str(themeName),
          applyTheme(config, listeners, storage, writable, themeName))

ImportConfig(configJson) ==
    Apply("importConfig", configJson,
          importConfig(config, listeners, storage, writable, configJson))

\* A call that touches neither the config nor the storage.
Quiet(op, arg) ==
    /\ lastOp' = Op(op, arg, "returned", Undefined)
    /\ calls' = <<>>
    /\ console' = <<>>

AddListener(l) ==
    /\ Len(listeners) < MaxListeners
    /\ listeners' = addListener(listeners, l)
    /\ Quiet("addListener", Str(l))
    /\ UNCHANGED <<config, storage, writable, held, candidate, validation, page>>

RemoveListener(l) ==
    /\ listeners' = removeListener(listeners, l)
    /\ Quiet("removeListener", Str(l))
    /\ UNCHANGED <<config, storage, writable, held, candidate, validation, page>>

\* The browser's storage fills up or is freed.
SetWritable ==
    /\ writable' = ~writable
    /\ Quiet("storageChange", Undefined)
    /\ UNCHANGED <<config, storage, listeners, held, candidate, validation, page>>

\* A caller takes the config.
GetConfig ==
    /\ held' = getConfig(config)
    /\ Quiet("getConfig", Undefined)
    /\ UNCHANGED <<config, storage, listeners, writable, candidate, validation, page>>

\* The caller changes the object it holds; when that object is this.config
\* itself, the manager's config is changed with it, and when its arrays are
\* arrays of this.config (shares), changing an array changes the config.
MutateHeld(m) ==
    /\ held # NoHeld
    /\ CanMutate(held.val, m)
    /\ Mutate(held.val, m) # held.val
    /\ held' = [held EXCEPT !.val = Mutate(held.val, m)]
    /\ config' = IF held.alias \/ (held.shares /\ m = "array")
                  THEN Mutate(config, m) ELSE config
    /\ Quiet("mutate", Str(m))
    /\ UNCHANGED <<storage, listeners, writable, candidate, validation, page>>

\* A caller calls updateConfig(newConfig) on a manager with live listeners
\* and keeps newConfig: merge assigned the arrays of newConfig themselves to
\* the new config (obj[key] = src[key]), its plain objects were copied.
UpdateConfigKeeping(newConfig) ==
    LET r == updateConfigLive(config, listeners, storage, writable, newConfig)
    IN  /\ config' = r.config
        /\ listeners' = r.listeners
        /\ storage' = r.storage
        /\ calls' = r.calls
        /\ console' = r.console
        /\ lastOp' = Op("updateConfig", newConfig, r.outcome, Undefined)
        /\ held' = IF r.outcome = "returned"
                    THEN [val |-> newConfig, alias |-> FALSE, shares |-> TRUE]
                    ELSE held
        /\ UNCHANGED <<writable, candidate, validation, page>>

\* validateConfig(config)
Validate(c) ==
    /\ candidate' = c
    /\ validation' = validateConfig(c)
    /\ Quiet("validateConfig", Undefined)
    /\ UNCHANGED <<config, storage, listeners, writable, held, page>>

\* The calls that change the config.
ConfigCalls ==
    \/ \E newConfig \in Partials : UpdateConfig(newConfig)
    \/ ResetConfig
    \/ \E themeName \in ThemeNames : ApplyTheme(themeName)
    \/ \E configJson \in ImportTexts : ImportConfig(configJson)

Next ==
    \/ ConfigCalls
    \/ \E l \in ListenerFns : AddListener(l)
    \/ \E l \in ListenerFns : RemoveListener(l)
    \/ SetWritable

\* The manager with its listeners and a storage that may refuse writes.
Spec == Init /\ [][Next]_vars

\* The manager alone: the config under every sequence of changing calls,
\* with more partials.
MergeCalls ==
    \/ ConfigCalls
    \/ \E newConfig \in MorePartials : UpdateConfig(newConfig)

SpecMerge == Init /\ [][MergeCalls]_vars

\* The manager's themes: applyTheme with listeners registered, on a config
\* that has its themes or has lost them.
ThemeCalls ==
    \/ \E themeName \in ThemeNames : ApplyTheme(themeName)
    \/ UpdateConfig(PNoThemes)
    \/ ResetConfig
    \/ \E l \in ListenerFns : AddListener(l)
    \/ \E l \in ListenerFns : RemoveListener(l)
    \/ SetWritable

SpecTheme == Init /\ [][ThemeCalls]_vars

\* A caller that takes the config and changes what it was handed, between
\* changing calls.
CopyCalls ==
    \/ GetConfig
    \/ \E m \in Mutations : MutateHeld(m)
    \/ \E newConfig \in Partials : UpdateConfig(newConfig)
    \/ ResetConfig

SpecCopy == Init /\ [][CopyCalls]_vars

\* new ChartConfigManager(): the page is loaded again.
Construct ==
    LET r == loadConfig(storage)
    IN  /\ config' = r.config
        /\ console' = r.console
        /\ lastOp' = Op("constructor", Undefined, r.outcome, Undefined)
        /\ listeners' = <<>>
        /\ calls' = <<>>
        /\ held' = NoHeld
        /\ UNCHANGED <<storage, writable, candidate, validation, page>>

\* Something else on the page overwrites the item with text that is no JSON.
CorruptStorage ==
    /\ storage \notin {Denied, Garbage}
    /\ storage' = Garbage
    /\ Quiet("storageChange", Undefined)
    /\ UNCHANGED <<config, listeners, writable, held, candidate, validation, page>>

\* Page loads over what earlier managers stored.
InitLoad ==
    /\ storage \in LoadItems
    /\ writable = (storage # Denied)
    /\ config = loadConfig(storage).config
    /\ console = loadConfig(storage).console
    /\ listeners = <<>>
    /\ calls = <<>>
    /\ lastOp = Op("constructor", Undefined, loadConfig(storage).outcome, Undefined)
    /\ held = NoHeld
    /\ candidate = Undefined
    /\ validation = NoValidation
    /\ PageSetup(storage, WideContainer)

LoadCalls ==
    \/ ConfigCalls
    \/ UpdateConfig(PRadarNull)
    \/ Construct
    \/ CorruptStorage

SpecLoad == InitLoad /\ [][LoadCalls]_vars

\* The settings panel's updateConfig(path, value) on its own manager, which
\* has no listeners, from the input handlers that initBasicSettings bound.
PanelUpdateConfig(path, value) ==
    LET r == panelUpdateConfig(panelConfig, storage, writable, path, value)
    IN  /\ Len(app.sections) >= 1
        /\ panelConfig' = r.config
        /\ storage' = r.storage
        /\ calls' = r.calls
        /\ console' = r.console
        /\ lastOp' = Op("panel.updateConfig",
                        Obj([path |-> Str(path), value |-> value]), r.outcome, r.ret)
        /\ UNCHANGED <<config, listeners, writable, held, candidate, validation,
                       renderer, site, sw>>

\* The page: the settings panel and code that uses window.chartConfigManager
\* both change the configuration.
PageCalls ==
    \/ \E i \in DOMAIN PanelInputs :
           PanelUpdateConfig(PanelInputs[i].path, PanelInputs[i].value)
    \/ \E newConfig \in Partials : UpdateConfig(newConfig)
    \/ ResetConfig

SpecPage == Init /\ [][PageCalls]_vars

----------------------------------------------------------------------------
(* The radar renderer as a state machine *)

\* An event of the renderer that the managers do not see. outcome is
\* "returned", "threw" (the exception leaves the callback) or "dropped" (the
\* throttle did not call the handler).
RendererEvent(op, arg, outcome) ==
    /\ lastOp' = Op(op, arg, outcome, Undefined)
    /\ calls' = <<>>
    /\ console' = <<>>
    /\ UNCHANGED <<config, listeners, storage, writable, held, candidate,
                   validation, panelConfig, chartConfig, dom, app, sw>>

\* The replaced renderers at an event that none of their handlers sees.
StaleIdle ==
    stale' = IF stale = <<>> THEN <<>>
             ELSE [i \in DOMAIN stale |-> [stale[i] EXCEPT !.drew = FALSE]]

\* The replaced renderers at a resize event of the window: their listeners
\* were never removed, so the throttled resizeCanvas of each runs, in the
\* order of registration and before the newest renderer's, and draws with
\* the config that renderer was set up with.
StaleResize ==
    stale' = IF stale = <<>> THEN <<>>
             ELSE [i \in DOMAIN stale |->
                     LET r == stale[i]
                         pic == drawRadarChart(r.config, r.animationProgress,
                                               r.hoveredIndex)
                     IN  IF r.inThrottle THEN [r EXCEPT !.drew = FALSE]
                         ELSE [r EXCEPT !.drew = TRUE, !.pic = pic,
                                        !.inThrottle = pic.stage = "done"]]

\* The event draws pic, or draws nothing.
Draws(op, pic) == drawn' = [by |-> op, now |-> TRUE, pic |-> pic]
DrawsNothing == drawn' = [drawn EXCEPT !.now = FALSE]

Outcome(pic) == IF pic.stage = "done" THEN "returned" ELSE "threw"

\* The IntersectionObserver callback with one entry: startAnimation() when
\* the entry is intersecting and no run is on; startAnimation returns at
\* once unless config.animation.enableEntryAnimation is truthy.
Intersect(isIntersecting) ==
    /\ dom.observer
    /\ inView' = isIntersecting
    /\ StaleIdle
    /\ IF isIntersecting /\ Starts(chartConfig, isAnimating)
       THEN /\ isAnimating' = TRUE
            /\ animationProgress' = Progress(0, 5001 * Duration(chartConfig), FALSE)
            /\ frame' = [pending |-> TRUE, since |-> 0, elapsed |-> 0,
                         duration |-> Duration(chartConfig)]
       ELSE UNCHANGED <<isAnimating, animationProgress, frame>>
    /\ DrawsNothing
    /\ RendererEvent("intersection", Bool(isIntersecting), "returned")
    /\ UNCHANGED <<hoveredIndex, tooltip, inThrottle, size, pointer>>

\* animate(currentTime), dt ms after the callback ran last (or after
\* startAnimation): deltaTime = currentTime - lastTime = frame.since + dt.
AnimationFrame(dt) ==
    LET deltaTime == frame.since + dt
        step == advance(animationProgress, deltaTime)
        den == animationProgress.den
        done == step.done
        progress == step.num
        pic == drawRadarChart(chartConfig, Progress(progress, den, TRUE), hoveredIndex)
    IN  /\ frame.pending
        /\ StaleIdle
        /\ IF deltaTime * 100 < 1667
           THEN /\ frame' = [frame EXCEPT !.since = deltaTime, !.elapsed = @ + dt]
                /\ DrawsNothing
                /\ RendererEvent("frame", Num(dt), "returned")
                /\ UNCHANGED <<isAnimating, animationProgress>>
           ELSE /\ isAnimating' = ~done
                /\ Draws("frame", pic)
                /\ animationProgress' =
                       Progress(progress, den, pic.stage # "done")
                /\ frame' = [frame EXCEPT !.pending = ~done /\ pic.stage = "done",
                                          !.since = 0, !.elapsed = @ + dt]
                /\ RendererEvent("frame", Num(dt), Outcome(pic))
        /\ UNCHANGED <<hoveredIndex, tooltip, inThrottle, size, pointer, inView>>

\* A resize event of the window: the throttled resizeCanvas. The throttle
\* sets inThrottle after the handler has returned. Where the setup failed
\* on a null context the listener is registered all the same, and initCanvas
\* throws again, after it has set the canvas's size if the canvas still has
\* a parent.
Resize(containerWidth) ==
    LET pic == drawRadarChart(chartConfig, animationProgress, hoveredIndex)
    IN  /\ dom.listeners
        /\ StaleResize
        /\ IF inThrottle.resize
           THEN /\ DrawsNothing
                /\ RendererEvent("resize", Num(containerWidth), "dropped")
                /\ UNCHANGED <<size, inThrottle>>
           ELSE IF dom.canvas = "noContext2d"
           THEN /\ size' \in {size, initCanvas(containerWidth)}
                /\ DrawsNothing
                /\ RendererEvent("resize", Num(containerWidth), "threw")
                /\ UNCHANGED inThrottle
           ELSE /\ size' = initCanvas(containerWidth)
                /\ Draws("resize", pic)
                /\ inThrottle' = [inThrottle EXCEPT !.resize = pic.stage = "done"]
                /\ RendererEvent("resize", Num(containerWidth), Outcome(pic))
        /\ UNCHANGED <<isAnimating, animationProgress, frame, hoveredIndex,
                       tooltip, pointer, inView>>

\* The timer of a throttle: inThrottle = false.
ThrottleExpires(handler) ==
    /\ inThrottle[handler]
    /\ inThrottle' = [inThrottle EXCEPT ![handler] = FALSE]
    /\ DrawsNothing
    /\ RendererEvent("timeout", Str(handler), "returned")
    /\ StaleIdle
    /\ UNCHANGED <<isAnimating, animationProgress, frame, hoveredIndex,
                   tooltip, size, pointer, inView>>

\* A mousemove event over the canvas at (x, y): the throttled handler runs
\* detectHover, which redraws and updates the tooltip when the hovered index
\* changes; a redraw that throws leaves the tooltip as it was. The mouse
\* events are those of a page whose one renderer was set up whole.
MouseMove(x, y) ==
    LET mousePos == [x |-> x, y |-> y]
        new == newHoveredIndex(chartConfig, size, mousePos)
        pic == drawRadarChart(chartConfig, animationProgress, new)
    IN  /\ x <= size /\ y <= size
        /\ dom.observer /\ stale = <<>>
        /\ StaleIdle
        /\ pointer' = [over |-> TRUE, x |-> x, y |-> y]
        /\ IF inThrottle.mousemove
           THEN /\ DrawsNothing
                /\ RendererEvent("mousemove", Undefined, "dropped")
                /\ UNCHANGED <<hoveredIndex, tooltip, inThrottle>>
           ELSE IF new = hoveredIndex
           THEN /\ DrawsNothing
                /\ inThrottle' = [inThrottle EXCEPT !.mousemove = TRUE]
                /\ RendererEvent("mousemove", Undefined, "returned")
                /\ UNCHANGED <<hoveredIndex, tooltip>>
           ELSE /\ hoveredIndex' = new
                /\ Draws("mousemove", pic)
                /\ tooltip' = IF pic.stage = "done"
                              THEN updateTooltip(tooltip, new) ELSE tooltip
                /\ inThrottle' = [inThrottle EXCEPT !.mousemove = pic.stage = "done"]
                /\ RendererEvent("mousemove", Undefined, Outcome(pic))
        /\ UNCHANGED <<isAnimating, animationProgress, frame, size, inView>>

\* The mouseleave handler.
MouseLeave ==
    LET pic == drawRadarChart(chartConfig, animationProgress, -1)
    IN  /\ pointer.over
        /\ dom.observer /\ stale = <<>>
        /\ StaleIdle
        /\ pointer' = Away
        /\ hoveredIndex' = -1
        /\ Draws("mouseleave", pic)
        /\ tooltip' = IF pic.stage = "done"
                      THEN updateTooltip(tooltip, -1) ELSE tooltip
        /\ RendererEvent("mouseleave", Undefined, Outcome(pic))
        /\ UNCHANGED <<isAnimating, animationProgress, frame, inThrottle, size,
                       inView>>

\* The page loaded over one of the given stored items, in a container of one
\* of the given widths, finding one of the given things as its canvas.
LoadedFinding(items, widths, canvases) ==
    /\ storage \in items
    /\ writable = TRUE
    /\ config = loadConfig(storage).config
    /\ console = loadConfig(storage).console
    /\ listeners = <<>>
    /\ calls = <<>>
    /\ lastOp = Op("constructor", Undefined, loadConfig(storage).outcome, Undefined)
    /\ held = NoHeld
    /\ candidate = Undefined
    /\ validation = NoValidation
    /\ \E w \in widths, canvas \in canvases : PageSetupOver(storage, w, canvas)

LoadedOver(items, widths) == LoadedFinding(items, widths, {"ok"})

\* The entry animation: viewport entries, animation frames and resizes, over
\* the defaults and over stored overrides that switch the entry animation
\* off, drop its duration or drop config.radar.
InitRadar == LoadedOver(RadarItems, {WideContainer})

RadarEvents ==
    \/ \E isIntersecting \in BOOLEAN : Intersect(isIntersecting)
    \/ \E dt \in FrameIntervals : AnimationFrame(dt)
    \/ \E w \in ContainerWidths : Resize(w)
    \/ ThrottleExpires("resize")

SpecRadar == InitRadar /\ [][RadarEvents]_vars

\* The browser runs a requested animation frame callback.
SpecRadarFair ==
    SpecRadar /\ WF_vars(\E dt \in FrameIntervals : AnimationFrame(dt))

\* The draws of charts with one, three, five and six labels.
InitDraw == LoadedOver(DrawItems, ContainerWidths)

SpecDraw == InitDraw /\ [][RadarEvents]_vars

\* The pointer over charts of three and six labels, in a wide and in a
\* narrow container, and over a chart whose draws throw.
InitHover == LoadedOver(HoverItems, ContainerWidths)

HoverEvents ==
    \/ \E p \in Pointers : MouseMove(p[1], p[2])
    \/ MouseLeave
    \/ ThrottleExpires("mousemove")

SpecHover == InitHover /\ [][HoverEvents]_vars

\* The chart's setup over every canvas it may find, with the defaults and
\* with a stored item that leaves config.radar null, and the callbacks that
\* the setup registered.
InitSetup == LoadedFinding({Null, JsonText(PRadarNull)}, {WideContainer}, CanvasStates)

SpecSetup == InitSetup /\ [][RadarEvents]_vars

\* The service worker's events leave the page's script alone.
WorkerEvent(op, outcome) ==
    /\ lastOp' = Op(op, Undefined, outcome, Undefined)
    /\ calls' = <<>>
    /\ console' = <<>>
    /\ UNCHANGED <<config, listeners, storage, writable, held, candidate,
                   validation, panelConfig, renderer, site>>

\* The install event of a registered worker.
Install(answer) ==
    LET r == install(caches, answer)
    IN  /\ worker.state = "none"
        /\ caches' = r.caches
        /\ worker' = [state |-> "installed", log |-> r.log]
        /\ WorkerEvent("install", "returned")
        /\ UNCHANGED response

\* The activate event, after the install event's promise was fulfilled.
Activate ==
    /\ worker.state = "installed"
    /\ caches' = activate(caches)
    /\ worker' = [worker EXCEPT !.state = "activated"]
    /\ WorkerEvent("activate", "returned")
    /\ UNCHANGED response

\* A fetch event of a page the active worker controls.
Fetch(req, answer) ==
    LET r == fetch(caches, req, answer)
    IN  /\ worker.state = "activated"
        /\ caches' = r.caches
        /\ response' = r.response
        /\ WorkerEvent("fetch", IF r.response.from = "error" THEN "threw" ELSE "returned")
        /\ UNCHANGED worker

\* Before this worker was registered, an earlier version left its cache.
EarlierVersion ==
    /\ worker.state = "none"
    /\ caches = NoCaches
    /\ caches' = OldCaches
    /\ WorkerEvent("earlier version", "returned")
    /\ UNCHANGED <<worker, response>>

WorkerEvents ==
    \/ EarlierVersion
    \/ \E answer \in Networks : Install(answer)
    \/ Activate
    \/ \E req \in Requests, answer \in Answers : Fetch(req, answer)


\* The worker from its registration on.
InitWorker == LoadedOver({Null}, {WideContainer})

SpecWorker == InitWorker /\ [][WorkerEvents]_vars

\* The manager with listeners that unsubscribe or write to the data they
\* get, and a caller that keeps what it passed to updateConfig.
NotifyCalls ==
    \/ \E l \in LiveListenerFns : AddListener(l)
    \/ \E newConfig \in {PLabels, PLevels} : UpdateConfigKeeping(newConfig)
    \/ \E m \in Mutations : MutateHeld(m)

SpecNotify == Init /\ [][NotifyCalls]_vars

\* The panel's apply button: applyConfiguration() runs
\* setupCoreAbilityRadarChart() again, in a container containerWidth wide.
\* The new renderer loads its config from the storage and adds its own
\* listeners and observer to the same canvas and window; nothing removes
\* those of the renderer before it, which goes on as it was. The tooltip
\* element is found by its id and shared. applyConfiguration then calls
\* setupAbilityChartInteractions, which src/ does not define: the click
\* handler returns or throws after the setup.
ApplyConfiguration(containerWidth) ==
    /\ app.bound
    /\ dom.observer
    /\ Len(stale) < MaxStale
    /\ stale' = Append(stale,
                       [config |-> chartConfig, animationProgress |-> animationProgress,
                        hoveredIndex |-> hoveredIndex, inThrottle |-> inThrottle.resize,
                        drew |-> FALSE, pic |-> NoDraw.pic])
    /\ chartConfig' = RendererConfig(storage)
    /\ isAnimating' = FALSE
    /\ animationProgress' = ZeroProgress
    /\ hoveredIndex' = -1
    /\ frame' = NoFrame
    /\ inThrottle' = [mousemove |-> FALSE, resize |-> FALSE]
    /\ size' = initCanvas(containerWidth)
    /\ inView' = FALSE
    /\ DrawsNothing
    /\ \E outcome \in {"returned", "threw"} :
           lastOp' = Op("applyConfiguration", Num(containerWidth), outcome, Undefined)
    /\ calls' = <<>>
    /\ console' = <<>>
    /\ UNCHANGED <<config, listeners, storage, writable, held, candidate,
                   validation, panelConfig, tooltip, pointer, dom, app, sw>>

\* The timer of a replaced renderer's resize throttle.
StaleThrottleExpires(i) ==
    /\ stale[i].inThrottle
    /\ stale' = [stale EXCEPT ![i].inThrottle = FALSE, ![i].drew = FALSE]
    /\ DrawsNothing
    /\ RendererEvent("timeout", Str("stale resize"), "returned")
    /\ UNCHANGED <<isAnimating, animationProgress, frame, hoveredIndex,
                   tooltip, inThrottle, size, pointer, inView>>

\* The settings panel, whole over a stored item that has the keys it reads:
\* the input of the grid's levels, the apply button, and resize events.
InitApply == LoadedOver({JsonText(PPanelReady)}, {WideContainer})

ApplyEvents ==
    \/ PanelUpdateConfig(PanelInputs[1].path, PanelInputs[1].value)
    \/ \E w \in ContainerWidths : ApplyConfiguration(w)
    \/ \E w \in ContainerWidths : Resize(w)
    \/ ThrottleExpires("resize")
    \/ \E i \in DOMAIN stale : StaleThrottleExpires(i)

SpecApply == InitApply /\ [][ApplyEvents]_vars

\* validateConfig on every candidate config.
SpecValidate == Init /\ [][\E c \in Candidates : Validate(c)]_vars

----------------------------------------------------------------------------
(* Properties *)

Range(f) == {f[i] : i \in DOMAIN f}

\* The calls of one event among cs, in order.
CallsOf(cs, event) == SelectSeq(cs, LAMBDA c : c.ev = event)

\* The listeners called for one event, in order.
Invoked(cs, event) == [i \in 1..Len(CallsOf(cs, event)) |-> CallsOf(cs, event)[i].l]

RECURSIVE RefMerge(_, _)
\* A reference deep merge of the plain object s into t: a key of s holding a
\* plain object is merged key by key into what t holds there (into an empty
\* object when t holds no plain object there), any other value replaces.
RefMerge(t, s) ==
    LET base == IF t.t = "obj" THEN t.f ELSE NoFields
        sub(k) == IF k \in DOMAIN base THEN base[k] ELSE Obj(NoFields)
    IN  Obj([k \in (DOMAIN base) \cup (DOMAIN s.f) |->
               IF k \notin DOMAIN s.f THEN base[k]
               ELSE IF s.f[k].t = "obj" THEN RefMerge(sub(k), s.f[k])
               ELSE s.f[k]])

\* C2: updateConfig(partial) returns with the config equal to the reference
\* deep merge of partial into the config it started from.
C2_UpdateIsDeepMerge ==
    [][lastOp'.op = "updateConfig" =>
         /\ lastOp'.outcome = "returned"
         /\ config' = RefMerge(config, lastOp'.arg)]_vars

\* The calls that the claims count as config mutations: updateConfig,
\* resetConfig, applyTheme of a theme of the config, importConfig of JSON.
KnownTheme(cfg, name) == name \in OwnKeys(GetProp(cfg, "themes"))

IsMutation(op, cfg) ==
    \/ op.op \in {"updateConfig", "resetConfig"}
    \/ op.op = "applyTheme" /\ KnownTheme(cfg, op.arg.s)
    \/ op.op = "importConfig" /\ op.arg.ok

\* C3: with local storage writable, after a mutating call has returned the
\* stored item is the JSON serialisation of the manager's config.
C3_StoredIsCurrentConfig ==
    (IsMutation(lastOp, config) /\ lastOp.outcome = "returned" /\ writable)
        => storage = Stringify(config)

\* C4: updateConfig is idempotent: from every reachable config and for every
\* partial, a second updateConfig with the same partial leaves the config
\* the first one produced.
C4_UpdateIdempotent ==
    \A P \in Partials \cup MorePartials :
        LET once == updateConfig(config, listeners, storage, writable, P)
            twice == updateConfig(once.config, listeners, once.storage, writable, P)
        IN  twice.config = once.config

\* An updateConfig that changed the config has run, and its partial is about
\* to be applied a second time.
C4_Witness ==
    /\ lastOp.op = "updateConfig"
    /\ lastOp.outcome = "returned"
    /\ lastOp.arg = PLabels
    /\ config # JsonClone(DEFAULT_CHART_CONFIG)
    /\ updateConfig(config, listeners, storage, writable, PLabels).config = config

RECURSIVE At(_, _)
\* The value at a key path.
At(v, p) == IF p = <<>> THEN v ELSE At(GetProp(v, Head(p)), Tail(p))

RECURSIVE UntouchedKept(_, _, _)
\* Every key path of before that partial P neither names nor replaces from
\* above with an array or a primitive has in after the value it has in
\* before: a key P does not name keeps its whole value, below a key where P
\* holds a plain object the same is asked again, below a key where P holds
\* an array or a primitive nothing is asked.
UntouchedKept(before, after, P) ==
    \A k \in OwnKeys(before) :
        IF k \notin OwnKeys(P)
        THEN k \in OwnKeys(after) /\ GetProp(after, k) = GetProp(before, k)
        ELSE GetProp(P, k).t = "obj" =>
                 UntouchedKept(GetProp(before, k), GetProp(after, k), GetProp(P, k))

\* C5: updateConfig(P) leaves every key path that P does not touch with the
\* value it had; the config is read as getConfig() gives it.
C5_UntouchedKeysKept ==
    [][lastOp'.op = "updateConfig" =>
         UntouchedKept(getConfig(config).val, getConfig(config').val, lastOp'.arg)]_vars

\* updateConfig({radar: {levels: 3}}) has run on a config whose other radar
\* keys and chart.width are still there to compare.
C5_Witness ==
    /\ lastOp.op = "updateConfig"
    /\ lastOp.outcome = "returned"
    /\ lastOp.arg = PLevels
    /\ At(config, <<"radar", "levels">>) = Num(3)
    /\ At(config, <<"chart", "width">>) = Num(400)
    /\ At(config, <<"radar", "levelStep">>) = Num(20)

\* What the claims call a listener being notified of an event: it is called
\* once for each of its registrations, in registration order.
NotifiedOf(event) == Invoked(calls, event) = listeners

\* C6 as first stated: after resetConfig(), getConfig() equals the defaults,
\* the defaults are what is stored, and the listeners were notified of
\* "configReset".
C6_ResetRestoresAndPersists ==
    lastOp.op = "resetConfig" =>
        /\ lastOp.outcome = "returned"
        /\ getConfig(config).val = JsonClone(DEFAULT_CHART_CONFIG)
        /\ storage = Stringify(DEFAULT_CHART_CONFIG)
        /\ NotifiedOf("configReset")

\* C6: after resetConfig(), getConfig() equals the defaults and the listeners
\* were notified of "configReset"; the defaults are what is stored when local
\* storage is writable, and else the stored item is the one from before.
C6_ResetRestoresDefaults ==
    /\ [](lastOp.op = "resetConfig" =>
            /\ lastOp.outcome = "returned"
            /\ getConfig(config).val = JsonClone(DEFAULT_CHART_CONFIG)
            /\ writable => storage = Stringify(DEFAULT_CHART_CONFIG)
            /\ NotifiedOf("configReset"))
    /\ [][(lastOp'.op = "resetConfig" /\ ~writable) => storage' = storage]_vars

\* resetConfig() has run on a changed config, with listeners registered and
\* the storage writable.
C6_Witness ==
    /\ lastOp.op = "resetConfig"
    /\ writable
    /\ Len(listeners) = MaxListeners
    /\ storage = Stringify(DEFAULT_CHART_CONFIG)

\* A name under which config.themes has nothing at all, own or inherited.
NoSuchMember(cfg, name) == ~KnownTheme(cfg, name) /\ name \notin ProtoNames

\* C7 as first stated: applyTheme(name) with a name that is no theme of the
\* config changes neither the config nor the stored item, notifies no
\* listener and logs a warning. (Read in its favour: only names under which
\* config.themes has no member at all are looked at.)
C7_UnknownThemeWarns ==
    [][(lastOp'.op = "applyTheme" /\ NoSuchMember(config, lastOp'.arg.s)) =>
         /\ config' = config
         /\ storage' = storage
         /\ calls' = <<>>
         /\ console' # <<>>]_vars

\* C7: applyTheme(name) with a name under which config.themes has no member
\* changes neither the config nor the stored item, calls no listener and
\* logs nothing; it returns, unless config.themes is null, when it throws.
C7_UnknownThemeSilentNoOp ==
    [][(lastOp'.op = "applyTheme" /\ NoSuchMember(config, lastOp'.arg.s)) =>
         /\ config' = config
         /\ storage' = storage
         /\ calls' = <<>>
         /\ console' = <<>>
         /\ lastOp'.outcome = "threw" <=> GetProp(config, "themes") = Null]_vars

\* applyTheme("neon") has returned with listeners registered, the storage
\* writable and a stored item that a save would have replaced.
C7_Witness ==
    /\ lastOp = Op("applyTheme", Str("neon"), "returned", Undefined)
    /\ listeners # <<>>
    /\ writable
    /\ storage # Stringify(config)

\* The event name a changing call gives its listeners last.
EventOf(op) ==
    CASE op = "updateConfig" -> "configUpdated"
      [] op = "resetConfig" -> "configReset"
      [] op = "applyTheme" -> "themeApplied"
      [] OTHER -> "none"

\* updateConfig, resetConfig or applyTheme of a theme of the config returned.
ChangeReturned ==
    /\ lastOp.op \in {"updateConfig", "resetConfig", "applyTheme"}
    /\ IsMutation(lastOp, config)
    /\ lastOp.outcome = "returned"

Count(ls, l) == Cardinality({i \in DOMAIN ls : ls[i] = l})

SomeListenerThrew(cs) == \E i \in DOMAIN cs : Throws(cs[i].l)

\* The config a changing call is to leave when it starts from cfg.
Expected(cfg, op) ==
    CASE op.op = "updateConfig" -> mergeConfig(cfg, op.arg)
      [] op.op = "resetConfig" -> JsonClone(DEFAULT_CHART_CONFIG)
      [] op.op = "applyTheme" ->
           mergeConfig(cfg, GetProp(GetProp(cfg, "themes"), op.arg.s))
      [] OTHER -> cfg

\* C10: when a listener throws during a changing call, the call still calls
\* every registered listener for each of its events, logs the failure and
\* returns; the config is the changed one and, the storage being writable,
\* the changed config is what is stored.
C10_ListenerFailuresIsolated ==
    [][(lastOp'.op \in {"updateConfig", "resetConfig", "applyTheme"}
          /\ SomeListenerThrew(calls')) =>
         /\ lastOp'.outcome = "returned"
         /\ Invoked(calls', EventOf(lastOp'.op)) = listeners
         /\ writable => Invoked(calls', "configSaved") = listeners
         /\ ListenerFailed \in Range(console')
         /\ config' = Expected(config, lastOp')
         /\ writable => storage' = Stringify(config')]_vars

\* updateConfig has returned after the first of two listeners threw, with
\* the storage writable.
C10_Witness ==
    /\ lastOp.op = "updateConfig"
    /\ lastOp.outcome = "returned"
    /\ writable
    /\ listeners = <<"faulty", "render">>
    /\ Invoked(calls, "configUpdated") = <<"faulty", "render">>
    /\ config # JsonClone(DEFAULT_CHART_CONFIG)

\* C1: changing an object that getConfig() returned changes neither what
\* getConfig() returns afterwards nor the stored item.
C1_GetConfigIsDeepCopy ==
    [][lastOp'.op = "mutate" =>
         /\ getConfig(config').val = getConfig(config).val
         /\ storage' = storage]_vars

\* A caller has changed the object getConfig() gave it, which now differs
\* from the manager's config.
C1_Witness ==
    /\ lastOp.op = "mutate"
    /\ held.val # Undefined
    /\ held.val # getConfig(config).val
    /\ At(held.val, <<"radar", "levels">>) = Num(99)

\* typeof v === 'object' of a value that is there.
IsObject(v) == v.t \in {"obj", "arr"}

\* A width or height that is absent or lies within 200..800.
AbsentOrInRange(v) == v = Undefined \/ (v.t = "num" /\ v.n >= 200 /\ v.n <= 800)

\* The configs the claim calls valid.
WellFormed(c) ==
    LET chart == GetProp(c, "chart")
    IN  /\ IsObject(chart)
        /\ IsObject(GetProp(c, "radar"))
        /\ IsArray(GetProp(c, "series"))
        /\ IsArray(GetProp(c, "labels"))
        /\ AbsentOrInRange(GetProp(chart, "width"))
        /\ AbsentOrInRange(GetProp(chart, "height"))

\* C8: validateConfig(config) gives isValid exactly when errors is empty, and
\* that exactly when chart and radar are objects, series and labels are
\* arrays and width and height, where present, lie within 200..800.
C8_ValidExactlyWhenWellFormed ==
    lastOp.op = "validateConfig" =>
        /\ validation.isValid <=> validation.errors = <<>>
        /\ validation.isValid <=> WellFormed(candidate)

----------------------------------------------------------------------------
(* Loading *)

\* The stored item cannot be read as JSON: it is no JSON text, or reading
\* local storage throws.
Unreadable(st) == st = Denied \/ (Truthy(st) /\ IsError(Parse(st)))

\* C11: a manager constructed over a stored item that is no JSON, or over a
\* local storage whose reading throws, is constructed without a throw and
\* its config is deep-equal to the compiled-in defaults.
C11_CorruptBlobGivesDefaults ==
    (lastOp.op = "constructor" /\ Unreadable(storage)) =>
        /\ lastOp.outcome = "returned"
        /\ config = JsonClone(DEFAULT_CHART_CONFIG)

\* A manager was constructed over an item that is no JSON and logged the
\* failed load.
C11_Witness ==
    /\ lastOp.op = "constructor"
    /\ storage = Garbage
    /\ console = <<LoadFailed>>
    /\ config = JsonClone(DEFAULT_CHART_CONFIG)

\* The config as getConfig() shows it.
View(cfg) == getConfig(cfg).val

\* The manager's config is what the stored item holds.
Persisted == storage = Stringify(config)

RECURSIVE Covers(_, _)
\* The plain object c has every key the defaults d have, and where c holds
\* a plain object d holds (own or inherited) a plain object that c's object
\* covers in turn, or a falsy value.
Covers(c, d) ==
    /\ OwnKeys(d) \subseteq OwnKeys(c)
    /\ \A k \in OwnKeys(c) :
           (GetProp(c, k).t = "obj" /\ Truthy(GetProp(d, k))) =>
               /\ GetProp(d, k).t = "obj"
               /\ Covers(GetProp(c, k), GetProp(d, k))

----------------------------------------------------------------------------
(* One configuration for the page *)

\* C13: the page has one ChartConfig: once the settings panel has set a path,
\* window.chartConfigManager.getConfig() holds the value at that path, and
\* what a later mutation through any component stores is the config that
\* the panel's manager holds as well.
C13_OneSharedConfig ==
    /\ (lastOp.op = "panel.updateConfig" /\ lastOp.outcome = "returned") =>
           At(View(config), Split(lastOp.arg.f.path.s)) = lastOp.arg.f.value
    /\ (lastOp.op \in {"updateConfig", "resetConfig"}
            /\ lastOp.outcome = "returned") =>
           storage = Stringify(panelConfig)

----------------------------------------------------------------------------
(* The entry animation *)

Idle == ~isAnimating
EntryAnimationOn == Truthy(AnimationSetting(chartConfig, "enableEntryAnimation"))
AtOne(p) == p.num = p.den
RunStarted == isAnimating' /\ animationProgress'.num = 0 /\ frame'.pending
RunUntouched == UNCHANGED <<isAnimating, animationProgress, frame>>

\* C14 as first stated: an intersection event with isIntersecting while Idle
\* starts a run (progress 0, Animating); one while Animating starts no
\* second run; every resize event redraws and changes neither the animation
\* state nor the progress.
C14_IdleAnimatingIdle ==
    [][/\ (lastOp'.op = "intersection" /\ lastOp'.arg = Bool(TRUE) /\ Idle)
            => RunStarted
       /\ (lastOp'.op = "intersection" /\ ~Idle) => RunUntouched
       /\ lastOp'.op = "resize" =>
            /\ drawn'.now /\ drawn'.by = "resize"
            /\ RunUntouched]_vars

\* C14: an intersection event with isIntersecting while Idle starts a run
\* when config.animation.enableEntryAnimation is truthy and none otherwise;
\* one while Animating starts no second run; a resize event outside the
\* throttle window sets the canvas size and redraws, one inside it does
\* nothing, and neither changes the animation state or the progress; the
\* state goes from Idle to Animating only by an intersection event and back
\* only by a frame that leaves the progress at 1.
C14_IdleAnimatingIdleWhenEnabled ==
    [][/\ (lastOp'.op = "intersection" /\ lastOp'.arg = Bool(TRUE) /\ Idle) =>
            IF EntryAnimationOn THEN RunStarted ELSE RunUntouched
       /\ (lastOp'.op = "intersection" /\ ~Idle) => RunUntouched
       /\ lastOp'.op = "resize" =>
            /\ RunUntouched
            /\ IF inThrottle.resize
               THEN ~drawn'.now /\ size' = size
               ELSE /\ drawn'.now /\ drawn'.by = "resize"
                    /\ size' = initCanvas(lastOp'.arg.n)
       /\ (Idle /\ ~Idle') => lastOp'.op = "intersection"
       /\ (~Idle /\ Idle') =>
            lastOp'.op = "frame" /\ AtOne(animationProgress')]_vars

\* A resize has redrawn the chart in the middle of a run.
C14_Witness ==
    /\ lastOp.op = "resize"
    /\ drawn.now
    /\ drawn.pic.stage = "done"
    /\ isAnimating
    /\ animationProgress.num > 0

\* C15: a frame leaves the progress at least where it was, never above 1,
\* and the frame that ends the run leaves it at exactly 1. (The progress
\* left by a frame whose draw threw is the eased one, which is at least
\* num / den and at most 1, and 1 where num / den is 1.)
C15_ProgressMonotoneAndClamped ==
    [][lastOp'.op = "frame" =>
         /\ animationProgress'.den = animationProgress.den
         /\ animationProgress'.num >= animationProgress.num
         /\ animationProgress'.num <= animationProgress'.den
         /\ (isAnimating /\ ~isAnimating') => AtOne(animationProgress')]_vars

\* The last frame of a run has overshot the duration and left the progress
\* at 1.
C15_Witness ==
    /\ lastOp.op = "frame"
    /\ lastOp.outcome = "returned"
    /\ ~isAnimating
    /\ AtOne(animationProgress)
    /\ animationProgress.den > 1
    /\ frame.elapsed > frame.duration + 10

\* C16: every animation run terminates: once Animating, the renderer is
\* eventually Idle with the progress at 1, and while it is Idle no frame
\* is scheduled.
C16_RunTerminates ==
    /\ isAnimating ~> (~isAnimating /\ AtOne(animationProgress))
    /\ [](~isAnimating => ~frame.pending)

\* C17: with no stored override, a run has reached progress 1 only once
\* about 2000 ms (here: at least 1800 ms) of frame time have passed since
\* its start.
C17_DefaultRunTakes2000ms ==
    (storage = Null /\ lastOp.op = "frame" /\ ~isAnimating
        /\ AtOne(animationProgress))
        => frame.elapsed >= 1800

----------------------------------------------------------------------------
(* Axes *)

\* The labels configured in the stored item, as a manager loads them.
ConfiguredLabels == GetProp(loadConfig(storage).config, "labels").e

\* The fraction a is d degrees.
IsDegrees(a, d) == a.num = d * a.den

\* C18: a draw strokes one spoke per configured label, spoke i (from 0) at
\* i * 360 / n - 90 degrees: the first straight up, each next one 360 / n
\* further; for the stored labels [A, B, C] they are at -90, 30 and 150.
C18_SpokesEvenlySpaced ==
    drawn.now =>
        LET n == Len(ConfiguredLabels)
            spokes == drawn.pic.spokes
        IN  /\ Len(spokes) = n
            /\ IsDegrees(spokes[1], -90)
            /\ \A i \in 1..n :
                   spokes[i].num * n = ((i - 1) * 360 - 90 * n) * spokes[i].den
            /\ \A i \in 1..(n - 1) :
                   (spokes[i + 1].num * spokes[i].den
                       - spokes[i].num * spokes[i + 1].den) * n
                     = 360 * spokes[i].den * spokes[i + 1].den
            /\ storage = JsonText(PLabels) =>
                   /\ n = 3
                   /\ IsDegrees(spokes[1], -90)
                   /\ IsDegrees(spokes[2], 30)
                   /\ IsDegrees(spokes[3], 150)

\* A frame has drawn the chart of the stored labels [A, B, C].
C18_Witness ==
    /\ drawn.now
    /\ drawn.by = "frame"
    /\ storage = JsonText(PLabels)
    /\ Len(drawn.pic.spokes) = 3

----------------------------------------------------------------------------
(* Hover *)

\* The data points of the chart, and the pointer's distance to them.
Points == 1..Len(abilities(chartConfig))
Near(i) == Distance2(pointer, Vertex(chartConfig, size, i)) <= 150 * 150
FarFromAll == \A i \in Points : ~Near(i)

\* All data points are more than 30px from one another.
PairwiseApart ==
    \A i, j \in Points :
        i # j =>
            LET a == Vertex(chartConfig, size, i)
                b == Vertex(chartConfig, size, j)
            IN  (a.x - b.x) * (a.x - b.x) + (a.y - b.y) * (a.y - b.y) > 300 * 300

\* C19: with the data points pairwise more than 30px apart, a mousemove
\* that the handler processed leaves hoveredIndex at the one data point
\* within 15px of the pointer, and at -1 when there is none.
C19_HoverSelectsNearVertex ==
    (lastOp.op = "mousemove" /\ lastOp.outcome # "dropped" /\ PairwiseApart) =>
        /\ \A i \in Points : Near(i) => hoveredIndex = i - 1
        /\ FarFromAll => hoveredIndex = -1

\* The pointer has come to the second data point of the six-label chart
\* and its tooltip is shown.
C19_Witness ==
    /\ lastOp.op = "mousemove"
    /\ lastOp.outcome = "returned"
    /\ PairwiseApart
    /\ Near(2)
    /\ hoveredIndex = 1
    /\ tooltip.show /\ tooltip.index = 1

\* C20: once the mouse has come to rest (the throttle's timer has run out
\* and no event is left to handle) more than 15px from every data point,
\* or has left the canvas, the tooltip is hidden and no data point is
\* highlighted.
C20_TooltipClearedOffVertices ==
    (~inThrottle.mousemove /\ (~pointer.over \/ FarFromAll)) =>
        /\ hoveredIndex = -1
        /\ ~tooltip.show

----------------------------------------------------------------------------
(* Failures of the chart's setup *)

\* The renderer cannot draw: there is no usable canvas, or the config it
\* loaded has no radar object.
RendererFails ==
    dom.canvas # "ok" \/ GetProp(chartConfig, "radar").t \in {"null", "undefined"}

\* C21: when the canvas is absent, has no 2D context, or config.radar is
\* missing, the failure was logged, the chart container holds the static
\* message, and no callback the setup registered has thrown.
C21_FailuresDegrade ==
    /\ RendererFails => (dom.log # <<>> /\ dom.container = "message")
    /\ lastOp.outcome # "threw"

----------------------------------------------------------------------------
(* The service worker's cache *)

\* The last event was a fetch event for a GET request of the worker's own
\* origin.
OwnGet == response'.to.method = "GET" /\ response'.to.origin = "same"

\* C22: a fetch event for a same-origin GET request whose URL is cached is
\* answered with the cached response and nothing is fetched or stored; on a
\* miss the network's response, when there is one, is served, and the caches
\* change only for a 200 response of type basic, by that one entry.
C22_CacheFirst ==
    [][(lastOp'.op = "fetch" /\ OwnGet) =>
          LET url == response'.to.url
              net == response'.net
          IN  /\ match(caches, url) # {} =>
                    /\ response'.from = "cache"
                    /\ response'.body \in match(caches, url)
                    /\ ~response'.fetched
                    /\ caches' = caches
              /\ match(caches, url) = {} =>
                    /\ response'.fetched
                    /\ net # Down =>
                           (response'.from = "network" /\ response'.body = net.body)
                    /\ caches' # caches =>
                           /\ net.status = 200
                           /\ caches' = [open(caches) EXCEPT
                                 ![CACHE_NAME] = @ \cup {[url |-> url, body |-> net.body]}]
                    /\ net.status = 200 => match(caches', url) = {net.body}]_vars

\* The precached page was served from the cache while the network had a
\* newer version of it.
C22_Witness ==
    /\ lastOp.op = "fetch"
    /\ response.to.url = "/index.html" /\ response.to.method = "GET"
    /\ response.net = Answer(200, "v2")
    /\ response.from = "cache" /\ response.body = "v1"

\* C23: once the worker is activated, every URL of CACHE_URLS is in the
\* cache CACHE_NAME and there is no other cache, and a same-origin document
\* request that the network failed was answered from the cache.
C23_OfflineAfterActivation ==
    worker.state = "activated" =>
        /\ DOMAIN caches = {CACHE_NAME}
        /\ \A u \in CACHE_URLS : \E e \in caches[CACHE_NAME] : e.url = u
        /\ (lastOp.op = "fetch" /\ response.to.method = "GET"
               /\ response.to.origin = "same" /\ response.to.destination = "document"
               /\ response.net = Down) => response.from \in {"cache", "fallback"}

----------------------------------------------------------------------------
(* The scale of the data polygon *)

\* C24: of two draws of the data polygon by consecutive events of one
\* animation run, the later never scales the polygon with a smaller progress
\* than the earlier, whichever of them are frames and which are redraws.
C24_DrawnProgressMonotone ==
    [][(isAnimating /\ drawn.now /\ drawn.pic.stage = "done"
          /\ drawn'.now /\ drawn'.pic.stage = "done")
         => Scale1000(drawn'.pic.progress) >= Scale1000(drawn.pic.progress)]_vars

\* C25: isAnimating is true only while an animation frame callback is
\* pending, so a run cannot be stuck.
C25_AnimatingOnlyWithFramePending == isAnimating => frame.pending

\* C26: while the chart is in the viewport and the renderer is Idle, a draw
\* shows the data polygon at full scale.
C26_IdleDrawsFullScale ==
    (inView /\ ~isAnimating /\ drawn.now /\ drawn.pic.stage = "done")
        => Scale1000(drawn.pic.progress) = 1000

----------------------------------------------------------------------------
(* Notifications and the config's isolation *)

\* How often the calls cs hold the call of listener l for event.
Invocations(cs, l, event) == Cardinality({i \in DOMAIN cs : cs[i] = Call(l, event)})

\* C27: in the 'configSaved' notification of an updateConfig that saves,
\* every listener registered when the call starts is invoked once per
\* registration, whatever the listeners do to the registry meanwhile.
C27_EachListenerInvokedOnce ==
    [][(lastOp'.op = "updateConfig" /\ lastOp'.outcome = "returned" /\ writable) =>
          \A l \in Range(listeners) :
              Invocations(calls', l, "configSaved") = Count(listeners, l)]_vars

\* C28: the config changes through the manager's operations only: a caller
\* changing the object it passed to updateConfig leaves the config as it
\* was, and updateConfig leaves the merge of the old config and its argument
\* whatever its listeners do to the object they are handed.
C28_ConfigOnlyThroughOperations ==
    [][/\ lastOp'.op = "mutate" => config' = config
       /\ (lastOp'.op = "updateConfig" /\ lastOp'.outcome = "returned") =>
              config' = mergeConfig(config, lastOp'.arg)]_vars

----------------------------------------------------------------------------
(* One renderer, and the page's start-up *)

\* C29: however often the chart was set up again, only the newest
\* renderer's handlers draw: no replaced renderer has drawn at the last
\* event.
C29_OnlyNewestRendererDraws == \A i \in DOMAIN stale : ~stale[i].drew

\* C30: over the compiled-in defaults, with every element in the page,
\* initializeApp has run all its steps in order, setupChartConfigPanel has
\* initialised all sections of the panel and bound the panel's open and
\* close handlers, and initializeApp returned.
C30_InitializeAppCompletes ==
    (lastOp.op = "constructor" /\ storage = Null) =>
        /\ app.steps = SetupSteps
        /\ app.sections = PanelSections
        /\ app.bound
        /\ app.outcome = "returned"

====
